---------------------------- MODULE Spec2Model ----------------------------
(***************************************************************************)
(* A model of the VibeCheck chat analyser: the transcript parser           *)
(* (src/src/parser.py), the text utilities (src/src/utils.py) and the      *)
(* metrics engine (src/src/analyzers.py).                                  *)
(*                                                                         *)
(* Text is modelled as TLA+ strings; a character is a string of length 1.  *)
(* The message grammars are matched character by character, the way the    *)
(* regular expressions of MESSAGE_PATTERNS match.                          *)
(***************************************************************************)
EXTENDS Integers, Sequences, FiniteSets, Bags, TLC

VARIABLES
    \* ---- parse_chat_content (src/src/parser.py) ----
    content,         \* the raw transcript text
    lines,           \* content.splitlines()
    pattern,         \* index into MESSAGE_PATTERNS of the selected grammar (0: none yet)
    idx,             \* position of the line pass in lines
    data,            \* completed rows [Date, Time, Author, Message]
    message_buffer,  \* body pieces of the open message
    date, time, author,  \* captured fields of the open message (<<>> is None)
    dayfirst,        \* the loop variable of "for dayfirst in [True, False]"
    dayfirst_col,    \* the column the dayfirst=True attempt returned (<<>>: not made)
    monthfirst_col,  \* the column the dayfirst=False attempt returned (<<>>: not made)
    datetime_col,    \* the local datetime_col (<<>> is None)
    date_branch,     \* which statement set df['DateTime']: "" (none), "loop" or "fallback"
    df,              \* the returned frame: rows [Date, Time, Author, Message, DateTime]
    pc,              \* position of parse_chat_content
    \* ---- detect_best_pattern (src/src/parser.py), run on its own ----
    d_lines,         \* its argument
    best_pattern, best_count, d_k,  \* its locals; d_k is the next pattern to try
    d_pc,
    \* ---- ChatAnalyzer (src/src/analyzers.py) ----
    store,           \* self.df: rows [Index, Author, CleanAuthor, DateTime] and, where
                     \* the metrics read them, Message and the _precompute columns;
                     \* in transcript order; DateTime in whole minutes
    sorted_df,       \* the local of the last metric: self.df.sort_values('DateTime')
    metric,          \* name of the last metric called ("" before any call)
    arg,             \* its argument: limit or min_consecutive (0 before any call)
    user_name,       \* the name compare_user_to_group was last asked about ("": none)
    result,          \* what it returned
    \* ---- the upload route (src/api/routes/upload.py) ----
    sessions,        \* the keys of the dict sessions, in insertion order; the value of
                     \* a key is the ChatAnalyzer built from the upload
    issued,          \* the number of session ids issued; uuid4() is the next number
    in_flight,       \* the bag of the file names of the upload requests suspended at
                     \* "await file.read()"
    response,        \* the response of the request served last
    recency,         \* history: the session ids issued, least recently used first
                     \* (used: created, or returned by get_analyzer)
    evicted,         \* history: the key the last upload deleted (0: none)
    \* ---- StatsService (src/api/stats.py) ----
    initial_count,   \* history: the number stored before the first call
    total_vibes_checked,  \* the number stored in STATS_FILE
    calls            \* the calls of increment_count: position, current, returned value

parserVars == <<content, lines, pattern, idx, data, message_buffer, date, time,
                author, dayfirst, dayfirst_col, monthfirst_col, datetime_col, date_branch,
                df, pc>>
detectVars == <<d_lines, best_pattern, best_count, d_k, d_pc>>
analyzerVars == <<store, sorted_df, metric, arg, user_name, result>>
serverVars == <<sessions, issued, in_flight, response, recency, evicted>>
statsVars == <<initial_count, total_vibes_checked, calls>>
vars == <<parserVars, detectVars, analyzerVars, serverVars, statsVars>>

----------------------------------------------------------------------------
(* Characters and strings *)

Ch(s, i) == IF i >= 1 /\ i <= Len(s) THEN SubSeq(s, i, i) ELSE ""

Digits == {"0", "1", "2", "3", "4", "5", "6", "7", "8", "9"}

\* What str.strip() removes and what \s matches (the ASCII part).
Whitespace == {" ", "\t", "\n", "\r", "\f"}

\* Where str.splitlines() breaks a text (the ASCII part it shares with TLA+ strings).
LineBreaks == {"\n", "\r", "\f"}

RECURSIVE DigitRun(_, _)
\* The number of consecutive digits of s from position i on.
DigitRun(s, i) == IF Ch(s, i) \in Digits THEN 1 + DigitRun(s, i + 1) ELSE 0

RECURSIVE SkipWs(_, _)
\* The first position from i on that holds no whitespace: where a greedy \s* ends.
SkipWs(s, i) == IF Ch(s, i) \in Whitespace THEN SkipWs(s, i + 1) ELSE i

\* The least element of a non-empty set of positions.
First(S) == CHOOSE i \in S : \A j \in S : i <= j

\* The first position from i on that holds a character of the set cs, 0 if none.
FindAny(s, cs, i) ==
    IF \E j \in i..Len(s) : Ch(s, j) \in cs
    THEN First({j \in i..Len(s) : Ch(s, j) \in cs})
    ELSE 0

\* The first position from i on that holds c, 0 if none.
FindChar(s, c, i) == FindAny(s, {c}, i)

RECURSIVE RStripEnd(_, _)
RStripEnd(s, j) == IF j >= 1 /\ Ch(s, j) \in Whitespace THEN RStripEnd(s, j - 1) ELSE j

\* str.strip()
Strip(s) == SubSeq(s, SkipWs(s, 1), RStripEnd(s, Len(s)))

\* The length of the line break at position i: \r\n is one break.
BreakLen(s, i) == IF Ch(s, i) = "\r" /\ Ch(s, i + 1) = "\n" THEN 2 ELSE 1

RECURSIVE SplitFrom(_, _)
\* The lines of s from position start on; brk is the next line break (0: none).
SplitAt(s, start, brk) ==
    IF brk = 0
    THEN IF start > Len(s) THEN <<>> ELSE <<SubSeq(s, start, Len(s))>>
    ELSE <<SubSeq(s, start, brk - 1)>> \o SplitFrom(s, brk + BreakLen(s, brk))

SplitFrom(s, start) == SplitAt(s, start, FindAny(s, LineBreaks, start))

\* str.splitlines(): no line for the text after a final line break.
SplitLines(s) == SplitFrom(s, 1)

RECURSIVE Join(_, _)
\* sep.join(parts)
Join(sep, parts) ==
    IF parts = <<>> THEN ""
    ELSE IF Len(parts) = 1 THEN parts[1]
    ELSE parts[1] \o sep \o Join(sep, Tail(parts))

RECURSIVE ReplaceChar(_, _, _)
\* str.replace(old, new) for a one-character old
ReplaceChar(s, old, new) ==
    IF s = "" THEN ""
    ELSE (IF Ch(s, 1) = old THEN new ELSE Ch(s, 1))
         \o ReplaceChar(SubSeq(s, 2, Len(s)), old, new)

----------------------------------------------------------------------------
(* The message grammars *)

\* MESSAGE_PATTERNS. The five regular expressions differ in three places only:
\* whether the timestamp is in brackets (otherwise " - " follows it), the
\* separator of the date, and whether the time has seconds.
\*   1  \[(\d{1,2}/\d{1,2}/\d{2,4}),\s*(\d{1,2}:\d{2}:\d{2}(?:\s*[AaPp][Mm])?)\]\s*(.*?):\s*(.*)$
\*   2  \[(\d{1,2}/\d{1,2}/\d{2,4}),\s*(\d{1,2}:\d{2}(?:\s*[AaPp][Mm])?)\]\s*(.*?):\s*(.*)$
\*   3  (\d{1,2}/\d{1,2}/\d{2,4}),\s*(\d{1,2}:\d{2}(?::\d{2})?(?:\s*[AaPp][Mm])?)\s*-\s*(.*?):\s*(.*)$
\*   4  \[(\d{1,2}-\d{1,2}-\d{2,4}),\s*(\d{1,2}:\d{2}:\d{2}(?:\s*[AaPp][Mm])?)\]\s*(.*?):\s*(.*)$
\*   5  \[(\d{1,2}\.\d{1,2}\.\d{2,4}),\s*(\d{1,2}:\d{2}:\d{2}(?:\s*[AaPp][Mm])?)\]\s*(.*?):\s*(.*)$
MESSAGE_PATTERNS ==
    << [bracket |-> TRUE,  sep |-> "/", seconds |-> "required"],
       [bracket |-> TRUE,  sep |-> "/", seconds |-> "none"],
       [bracket |-> FALSE, sep |-> "/", seconds |-> "optional"],
       [bracket |-> TRUE,  sep |-> "-", seconds |-> "required"],
       [bracket |-> TRUE,  sep |-> ".", seconds |-> "required"] >>

\* \d{lo,hi} followed by the one character nxt, from position i: the position
\* after nxt, 0 if it does not match. The digits end where nxt stands, so the
\* whole run of digits is taken or nothing matches.
DigitsThen(s, i, lo, hi, nxt) ==
    LET n == DigitRun(s, i)
    IN  IF i > 0 /\ n >= lo /\ n <= hi /\ Ch(s, i + n) = nxt THEN i + n + 1 ELSE 0

\* (\d{1,2}<sep>\d{1,2}<sep>\d{2,4}), from position i: the position of the comma,
\* 0 if it does not match.
MatchDate(s, i, sep) ==
    LET c == DigitsThen(s, DigitsThen(s, DigitsThen(s, i, 1, 2, sep), 1, 2, sep), 2, 4, ",")
    IN  IF c = 0 THEN 0 ELSE c - 1

\* Whether [AaPp][Mm] stands at position w.
AmPmAt(s, w) == Ch(s, w) \in {"A", "a", "P", "p"} /\ Ch(s, w + 1) \in {"M", "m"}

\* (?:\s*[AaPp][Mm])? from position i (0: no match so far): the position after it.
OptAmPm(s, i) ==
    IF i = 0 THEN 0
    ELSE IF AmPmAt(s, SkipWs(s, i)) THEN SkipWs(s, i) + 2 ELSE i

\* Whether :\d{2} stands at position i.
SecondsAt(s, i) == Ch(s, i) = ":" /\ DigitRun(s, i + 1) >= 2

\* The seconds of the time from position i (0: no match so far): required, optional
\* (taken when present: what follows could not match a colon) or not allowed.
MatchSeconds(s, i, seconds) ==
    CASE i = 0 -> 0
      [] seconds = "required" -> IF SecondsAt(s, i) THEN i + 3 ELSE 0
      [] seconds = "optional" -> IF SecondsAt(s, i) THEN i + 3 ELSE i
      [] OTHER -> i

\* \d{2} from position i (0: no match so far): the position after it.
TwoDigits(s, i) == IF i > 0 /\ DigitRun(s, i) >= 2 THEN i + 2 ELSE 0

\* (\d{1,2}:\d{2}[:\d{2}](?:\s*[AaPp][Mm])?) from position i: the position after
\* the group, 0 if it does not match.
MatchTime(s, i, seconds) ==
    OptAmPm(s, MatchSeconds(s, TwoDigits(s, DigitsThen(s, i, 1, 2, ":")), seconds))

\* What closes the timestamp from position t1: \] for the bracket grammars, \s*-
\* for grammar 3. The position after it, 0 if it does not match.
MatchClose(s, t1, bracket) ==
    IF bracket
    THEN (IF Ch(s, t1) = "]" THEN t1 + 1 ELSE 0)
    ELSE (IF Ch(s, SkipWs(s, t1)) = "-" THEN SkipWs(s, t1) + 1 ELSE 0)

NoMatch == [ok |-> FALSE, date |-> "", time |-> "", author |-> "", message |-> ""]

\* The groups, once the colon that ends the author is found.
MatchGroups(s, d0, comma, t0, t1, a0, colon) ==
    IF colon = 0 THEN NoMatch
    ELSE [ok      |-> TRUE,
          date    |-> SubSeq(s, d0, comma - 1),
          time    |-> SubSeq(s, t0, t1 - 1),
          author  |-> SubSeq(s, a0, colon - 1),
          message |-> SubSeq(s, SkipWs(s, colon + 1), Len(s))]

\* \s*(.*?):\s*(.*)$ from position a (after the closing \] or -): the author
\* starts after the whitespace and ends before the first colon.
MatchAuthor(s, d0, comma, t0, t1, a0) ==
    MatchGroups(s, d0, comma, t0, t1, a0, FindChar(s, ":", a0))

MatchAfterTime(pat, s, d0, comma, t0, t1) ==
    IF t1 = 0 \/ MatchClose(s, t1, pat.bracket) = 0 THEN NoMatch
    ELSE MatchAuthor(s, d0, comma, t0, t1, SkipWs(s, MatchClose(s, t1, pat.bracket)))

\* ,\s* and the time, from the comma that ends the date
MatchAfterDate(pat, s, d0, comma, t0) ==
    IF comma = 0 THEN NoMatch
    ELSE MatchAfterTime(pat, s, d0, comma, t0, MatchTime(s, t0, pat.seconds))

MatchFrom(pat, s, d0) ==
    IF d0 = 0 THEN NoMatch
    ELSE MatchAfterDate(pat, s, d0, MatchDate(s, d0, pat.sep),
                        SkipWs(s, MatchDate(s, d0, pat.sep) + 1))

\* re.match(MESSAGE_PATTERNS[p], s): the four groups, or NoMatch. re.match
\* anchors at the first character, so a bracket grammar needs [ there.
Match(p, s) ==
    MatchFrom(MESSAGE_PATTERNS[p], s,
              IF MESSAGE_PATTERNS[p].bracket THEN (IF Ch(s, 1) = "[" THEN 2 ELSE 0) ELSE 1)

\* bool(re.match(pattern, line.strip()))
Matches(p, line) == Match(p, Strip(line)).ok


----------------------------------------------------------------------------
(* detect_best_pattern *)

\* lines[:100]
SAMPLE_SIZE == 100

Sample(ls) == SubSeq(ls, 1, IF Len(ls) < SAMPLE_SIZE THEN Len(ls) ELSE SAMPLE_SIZE)

\* sum(1 for line in sample if re.match(pattern, line.strip()))
CountMatches(p, sample) == Cardinality({i \in 1..Len(sample) : Matches(p, sample[i])})

\* best_pattern = patterns[0]; best_count = 0
DetectStart == [pattern |-> 1, count |-> 0]

\* A step that lets a later grammar with an equal count replace the best one: the
\* variant C3 tells from DetectStep.
DetectStepTiesReplace(best, p, sample) ==
    IF CountMatches(p, sample) >= best.count
    THEN [pattern |-> p, count |-> CountMatches(p, sample)]
    ELSE best

\* A step that never records the best count: the variant C4 tells from DetectStep.
DetectStepKeepsCount(best, p, sample) ==
    IF CountMatches(p, sample) > best.count
    THEN [pattern |-> p, count |-> best.count]
    ELSE best

\* One round of "for pattern in patterns": a later pattern replaces the best
\* one only with a strictly higher count.
DetectStep(best, p, sample) ==
    LET count == CountMatches(p, sample)
    IN  IF count > best.count THEN [pattern |-> p, count |-> count] ELSE best

RECURSIVE DetectFrom(_, _, _)
DetectFrom(best, p, sample) ==
    IF p > Len(MESSAGE_PATTERNS) THEN best
    ELSE DetectFrom(DetectStep(best, p, sample), p + 1, sample)

\* detect_best_pattern(lines, MESSAGE_PATTERNS), as the index of the pattern
DetectBestPattern(ls) == DetectFrom(DetectStart, 1, Sample(ls)).pattern

----------------------------------------------------------------------------
(* parse_chat_content *)

\* normalize_date: date_str.replace('-', '/').replace('.', '/')
NormalizeDate(date_str) == ReplaceChar(ReplaceChar(date_str, "-", "/"), ".", "/")

\* A local that is None or a str is <<>> or <<str>>; "if author:" holds for a
\* non-empty str only.
None == <<>>
\* A test that takes every author, captured or not: the variant C8 tells from
\* Truthy.
TruthyAlways(opt) == TRUE

Truthy(opt) == opt # None /\ opt[1] # ""

\* A join that leaves out the separator: the variant C2 tells from JoinBuffer.
JoinBufferNoSeparator(buffer) == Join("", buffer)

\* ' '.join(message_buffer)
JoinBuffer(buffer) == Join(" ", buffer)

\* if author: data.append([normalize_date(date), time, author, ' '.join(message_buffer)])
Flush(rows, d, t, a, buffer) ==
    IF Truthy(a)
    THEN Append(rows, [Date |-> NormalizeDate(d[1]), Time |-> t[1], Author |-> a[1],
                       Message |-> JoinBuffer(buffer)])
    ELSE rows

\* normalize_date(date) raises AttributeError when date is None: the flush is
\* safe because "if author:" guards it, and author and date are set together.
FlushRaises(d, a) == Truthy(a) /\ d = None

\* else: if author: message_buffer.append(line)
Continue(buffer, a, line) == IF Truthy(a) THEN Append(buffer, line) ELSE buffer

\* A timestamp: NaT, or the reading pandas gives the text, which depends on the
\* text and on dayfirst. The reading itself is pandas' and is kept symbolic.
NaT == [valid |-> FALSE, dayfirst |-> FALSE, text |-> ""]
Timestamp(text, df_flag) == [valid |-> TRUE, dayfirst |-> df_flag, text |-> text]

\* df['Date'] + ' ' + df['Time']
DateTexts(rows) == [r \in 1..Len(rows) |-> rows[r].Date \o " " \o rows[r].Time]

\* pd.to_datetime(texts, dayfirst=df_flag, errors='coerce'): with errors='coerce'
\* it does not raise, and a text it cannot read becomes NaT. Which texts it can
\* read is pandas' matter: readable is the set of those it reads in this call.
ToDatetime(texts, df_flag, readable) ==
    [r \in 1..Len(texts) |->
        IF texts[r] \in readable THEN Timestamp(texts[r], df_flag) ELSE NaT]

\* datetime_col.notna().sum()
NotNaCount(col) == Cardinality({r \in 1..Len(col) : col[r].valid})

\* A test that accepts exactly half: the variant C5 tells from MostParsed.
MostParsedOrHalf(col, n) == 2 * NotNaCount(col) >= n

\* datetime_col.notna().sum() > len(df) * 0.5
MostParsed(col, n) == 2 * NotNaCount(col) > n

\* An attempt that leaves datetime_col unset unless most of the column parsed:
\* the variant C6 tells from KeepAttempt.
KeepAttemptIfMost(col, n) == IF 2 * NotNaCount(col) > n THEN <<col>> ELSE <<>>

\* What an attempt of the loop leaves in datetime_col: the column it returned,
\* whether or not most of it parsed.
KeepAttempt(col, n) == <<col>>

\* A frame that keeps the rows without a timestamp: the variant C7 tells from
\* DropNa.
DropNaKeepsAll(frame) == frame

\* df.dropna(subset=['DateTime']); the rows keep their index labels.
DropNa(frame) == SelectSeq(frame, LAMBDA row : row.DateTime.valid)

\* The frame with its DateTime column set; Index is the frame's row label.
WithDateTime(rows, col) ==
    [r \in 1..Len(rows) |->
        [Index |-> r - 1, Date |-> rows[r].Date, Time |-> rows[r].Time,
         Author |-> rows[r].Author, Message |-> rows[r].Message, DateTime |-> col[r]]]

\* ---- the inputs ----
MaxLines == 3

\* The lines the transcripts are made of.
PoolLines ==
    { "[01/02/2023, 10:00:00] Alice: Hello",
      "world",
      "[13/01/23, 9:05:00 PM] : lost",
      "[13/01/23, 9:05:00 PM] Bob B: ok",
      "",
      "1/2/23, 10:00 - Bob: hi",
      " [1-2-23, 10:00:00] A: y\r" }

RECURSIVE LineSeqs(_)
LineSeqs(n) ==
    IF n = 0 THEN {<<>>}
    ELSE LET shorter == LineSeqs(n - 1)
         IN  shorter \cup {Append(s, l) : s \in {t \in shorter : Len(t) = n - 1},
                                           l \in PoolLines}

Contents == {Join("\n", s) : s \in LineSeqs(MaxLines)}

\* The parts of the state a specification does not run stay as they are here.
ParserIdle ==
    /\ content = "" /\ lines = <<>> /\ pattern = 0 /\ idx = 0
    /\ data = <<>> /\ message_buffer = <<>>
    /\ date = None /\ time = None /\ author = None
    /\ dayfirst = TRUE /\ dayfirst_col = None /\ monthfirst_col = None
    /\ datetime_col = None
    /\ date_branch = "" /\ df = <<>>
    /\ pc = "idle"

DetectIdle ==
    /\ d_lines = <<>> /\ best_pattern = 0 /\ best_count = 0 /\ d_k = 0 /\ d_pc = "idle"

AnalyzerIdle ==
    /\ store = <<>> /\ sorted_df = <<>> /\ metric = "" /\ arg = 0 /\ user_name = ""
    /\ result = <<>>

\* No request has been served.
NoResponse == [route |-> "", status |-> 0, session_id |-> 0, detail |-> ""]

\* sessions: dict[str, ChatAnalyzer] = {}
ServerIdle ==
    /\ sessions = <<>> /\ issued = 0 /\ in_flight = EmptyBag /\ response = NoResponse
    /\ recency = <<>> /\ evicted = 0

StatsIdle ==
    /\ initial_count = 0 /\ total_vibes_checked = 0 /\ calls = <<>>

ParseInit ==
    /\ DetectIdle /\ AnalyzerIdle /\ ServerIdle /\ StatsIdle
    /\ content \in Contents
    /\ lines = <<>> /\ pattern = 0 /\ idx = 0
    /\ data = <<>> /\ message_buffer = <<>>
    /\ date = None /\ time = None /\ author = None
    /\ dayfirst = TRUE /\ dayfirst_col = None /\ monthfirst_col = None
    /\ datetime_col = None
    /\ date_branch = "" /\ df = <<>>
    /\ pc = "start"

\* lines = content.splitlines(); if not lines: return the empty frame
ReturnNoLines ==
    /\ pc = "start"
    /\ SplitLines(content) = <<>>
    /\ lines' = <<>>
    /\ df' = <<>>
    /\ pc' = "done"
    /\ UNCHANGED <<detectVars, analyzerVars, content, pattern, idx, data,
                   message_buffer, date, time, author, dayfirst, dayfirst_col,
                   monthfirst_col, datetime_col, date_branch, serverVars, statsVars>>

\* pattern = detect_best_pattern(lines, MESSAGE_PATTERNS); data = []; ...
SelectPattern ==
    /\ pc = "start"
    /\ SplitLines(content) # <<>>
    /\ lines' = SplitLines(content)
    /\ pattern' = DetectBestPattern(lines')
    /\ idx' = 1
    /\ pc' = "lines"
    /\ UNCHANGED <<detectVars, analyzerVars, content, data, message_buffer, date,
                   time, author, dayfirst, dayfirst_col, monthfirst_col,
                   datetime_col, date_branch, df, serverVars, statsVars>>

\* for line in lines: a line that matches flushes the open message and opens one
MatchingLine ==
    /\ pc = "lines"
    /\ idx <= Len(lines)
    /\ Match(pattern, Strip(lines[idx])).ok
    /\ IF FlushRaises(date, author)
       THEN /\ pc' = "raised"
            /\ UNCHANGED <<data, date, time, author, message_buffer, idx>>
       ELSE /\ data' = Flush(data, date, time, author, message_buffer)
            /\ date' = <<Match(pattern, Strip(lines[idx])).date>>
            /\ time' = <<Match(pattern, Strip(lines[idx])).time>>
            /\ author' = <<Match(pattern, Strip(lines[idx])).author>>
            /\ message_buffer' = <<Match(pattern, Strip(lines[idx])).message>>
            /\ idx' = idx + 1
            /\ pc' = pc
    /\ UNCHANGED <<detectVars, analyzerVars, content, lines, pattern, dayfirst,
                   dayfirst_col, monthfirst_col, datetime_col, date_branch, df,
                   serverVars, statsVars>>

\* for line in lines: a line that does not match continues the open message
ContinuationLine ==
    /\ pc = "lines"
    /\ idx <= Len(lines)
    /\ ~Match(pattern, Strip(lines[idx])).ok
    /\ message_buffer' = Continue(message_buffer, author, Strip(lines[idx]))
    /\ idx' = idx + 1
    /\ UNCHANGED <<detectVars, analyzerVars, content, lines, pattern, data, date,
                   time, author, dayfirst, dayfirst_col, monthfirst_col,
                   datetime_col, date_branch, df, pc, serverVars, statsVars>>

\* After the loop: the last flush, the frame, "if df.empty: return df".
EndOfInput ==
    /\ pc = "lines"
    /\ idx > Len(lines)
    /\ IF FlushRaises(date, author)
       THEN /\ pc' = "raised"
            /\ UNCHANGED <<data, df>>
       ELSE /\ data' = Flush(data, date, time, author, message_buffer)
            /\ df' = <<>>
            /\ pc' = IF Flush(data, date, time, author, message_buffer) = <<>>
                     THEN "done" ELSE "dayfirst"
    /\ UNCHANGED <<detectVars, analyzerVars, content, lines, pattern, idx,
                   message_buffer, date, time, author, dayfirst, dayfirst_col,
                   monthfirst_col, datetime_col, date_branch, serverVars, statsVars>>

\* The texts pandas may or may not be able to read in one call.
TextsOf(rows) == {DateTexts(rows)[r] : r \in 1..Len(rows)}

\* The first round of "for dayfirst in [True, False]".
TryDayFirst ==
    /\ pc = "dayfirst"
    /\ \E readable \in SUBSET TextsOf(data) :
          /\ dayfirst_col' = <<ToDatetime(DateTexts(data), TRUE, readable)>>
          /\ datetime_col' = KeepAttempt(ToDatetime(DateTexts(data), TRUE, readable),
                                         Len(data))
          /\ pc' = IF MostParsed(ToDatetime(DateTexts(data), TRUE, readable), Len(data))
                   THEN "assign" ELSE "monthfirst"
    /\ dayfirst' = TRUE
    /\ UNCHANGED <<detectVars, analyzerVars, content, lines, pattern, idx, data,
                   message_buffer, date, time, author, monthfirst_col, date_branch, df,
                   serverVars, statsVars>>

\* The second round, reached without the break.
TryMonthFirst ==
    /\ pc = "monthfirst"
    /\ \E readable \in SUBSET TextsOf(data) :
          /\ monthfirst_col' = <<ToDatetime(DateTexts(data), FALSE, readable)>>
          /\ datetime_col' = KeepAttempt(ToDatetime(DateTexts(data), FALSE, readable),
                                         Len(data))
    /\ dayfirst' = FALSE
    /\ pc' = "assign"
    /\ UNCHANGED <<detectVars, analyzerVars, content, lines, pattern, idx, data,
                   message_buffer, date, time, author, dayfirst_col, date_branch, df,
                   serverVars, statsVars>>

\* if datetime_col is not None: df['DateTime'] = datetime_col
\* else: df['DateTime'] = pd.to_datetime(df['Date'] + ' ' + df['Time'], errors='coerce')
\* df = df.dropna(subset=['DateTime']); return df
AssignAndDrop ==
    /\ pc = "assign"
    /\ \E readable \in IF datetime_col # None THEN {{}} ELSE SUBSET TextsOf(data) :
          df' = DropNa(WithDateTime(data,
                    IF datetime_col # None THEN datetime_col[1]
                    ELSE ToDatetime(DateTexts(data), FALSE, readable)))
    /\ date_branch' = IF datetime_col # None THEN "loop" ELSE "fallback"
    /\ pc' = "done"
    /\ UNCHANGED <<detectVars, analyzerVars, content, lines, pattern, idx, data,
                   message_buffer, date, time, author, dayfirst, dayfirst_col,
                   monthfirst_col, datetime_col, serverVars, statsVars>>

ParseNext ==
    \/ ReturnNoLines
    \/ SelectPattern
    \/ MatchingLine
    \/ ContinuationLine
    \/ EndOfInput
    \/ TryDayFirst
    \/ TryMonthFirst
    \/ AssignAndDrop


\* parse_chat_content on every transcript of Contents
ParseSpec == ParseInit /\ [][ParseNext]_vars

----------------------------------------------------------------------------
(* detect_best_pattern, run on its own, on transcripts longer than the sample *)

MaxShort == 3
MaxTail == 101

\* One line of each grammar, and one of none.
DetectPool ==
    { "[1/2/23, 1:00:00] A: x",
      "[1/2/23, 1:00] A: x",
      "1/2/23, 1:00 - A: x",
      "[1-2-23, 1:00:00] A: x",
      "[1.2.23, 1:00:00] A: x",
      "x" }

RECURSIVE ShortSeqs(_)
ShortSeqs(n) ==
    IF n = 0 THEN {<<>>}
    ELSE ShortSeqs(n - 1)
         \cup {Append(s, l) : s \in {t \in ShortSeqs(n - 1) : Len(t) = n - 1},
                              l \in DetectPool}

\* n times the line l
Rep(l, n) == [i \in 1..n |-> l]

\* A head that fills the sample, or all of it but one line, and a longer tail.
LongSeqs ==
    {Rep(a, m) \o Rep(b, MaxTail) :
        a \in DetectPool, b \in DetectPool, m \in {SAMPLE_SIZE - 1, SAMPLE_SIZE}}

DetectInit ==
    /\ ParserIdle /\ AnalyzerIdle /\ ServerIdle /\ StatsIdle
    /\ d_lines \in ShortSeqs(MaxShort) \cup LongSeqs
    /\ best_pattern = 0 /\ best_count = 0 /\ d_k = 0
    /\ d_pc = "start"

\* best_pattern = patterns[0]; best_count = 0
DetectBegin ==
    /\ d_pc = "start"
    /\ best_pattern' = DetectStart.pattern
    /\ best_count' = DetectStart.count
    /\ d_k' = 1
    /\ d_pc' = "loop"
    /\ UNCHANGED <<parserVars, analyzerVars, d_lines, serverVars, statsVars>>

\* One round of "for pattern in patterns".
DetectTry ==
    /\ d_pc = "loop"
    /\ d_k <= Len(MESSAGE_PATTERNS)
    /\ best_pattern' =
          DetectStep([pattern |-> best_pattern, count |-> best_count], d_k,
                     Sample(d_lines)).pattern
    /\ best_count' =
          DetectStep([pattern |-> best_pattern, count |-> best_count], d_k,
                     Sample(d_lines)).count
    /\ d_k' = d_k + 1
    /\ UNCHANGED <<parserVars, analyzerVars, d_lines, d_pc, serverVars, statsVars>>

\* return best_pattern
DetectReturn ==
    /\ d_pc = "loop"
    /\ d_k > Len(MESSAGE_PATTERNS)
    /\ d_pc' = "done"
    /\ UNCHANGED <<parserVars, analyzerVars, d_lines, best_pattern, best_count, d_k,
                   serverVars, statsVars>>

DetectNext ==
    \/ DetectBegin
    \/ DetectTry
    \/ DetectReturn

\* detect_best_pattern on every transcript of ShortSeqs(MaxShort) and LongSeqs
DetectSpec == DetectInit /\ [][DetectNext]_vars

----------------------------------------------------------------------------
(* Properties of the line pass *)

\* The positions of the lines of ls that match grammar p.
MatchIdx(ls, p) == {i \in 1..Len(ls) : Matches(p, ls[i])}

\* Of those, the ones whose captured author is not the empty string.
NamedIdx(ls, p) == {i \in MatchIdx(ls, p) : Match(p, Strip(ls[i])).author # ""}

\* The rank of i in the set S of positions.
Rank(S, i) == Cardinality({j \in S : j <= i})

\* The position of the first matching line after line i, Len(ls) + 1 if none.
NextMatch(ls, p, i) ==
    IF \E j \in MatchIdx(ls, p) : j > i
    THEN First({j \in MatchIdx(ls, p) : j > i})
    ELSE Len(ls) + 1

\* The first-line body of matching line i, then every later line up to the next
\* matching line, with a single space between them.
ExpectedBody(ls, p, i) ==
    Join(" ", <<Match(p, Strip(ls[i])).message>>
              \o [k \in 1..(NextMatch(ls, p, i) - i - 1) |-> Strip(ls[i + k])])

\* The line pass and the last flush are over.
LinePassDone == pc \in {"dayfirst", "monthfirst", "assign", "done"} /\ pattern # 0

\* C1: the line pass leaves exactly one record per line that matches the selected
\* grammar, in the order of those lines (each record carrying the date, time and
\* author its line captured).
C1_OneRecordPerMatchingLine ==
    LinePassDone =>
        /\ Len(data) = Cardinality(MatchIdx(lines, pattern))
        /\ \A i \in MatchIdx(lines, pattern) :
              /\ data[Rank(MatchIdx(lines, pattern), i)].Author
                    = Match(pattern, Strip(lines[i])).author
              /\ data[Rank(MatchIdx(lines, pattern), i)].Time
                    = Match(pattern, Strip(lines[i])).time

SpecExample == "[01/02/2023, 10:00:00] Alice: Hello\nworld"

\* C2: the body of each record is the first-line body of its matching line
\* followed by every later non-matching line up to the next matching line (or the
\* end), joined by a single space each; the records are those of the matching
\* lines with an author, so a line before the first matching line is in no
\* record; the transcript of the specification gives one message, "Hello world".
C2_BodyJoinsContinuationLines ==
    LinePassDone =>
        /\ Len(data) = Cardinality(NamedIdx(lines, pattern))
        /\ \A i \in NamedIdx(lines, pattern) :
              /\ data[Rank(NamedIdx(lines, pattern), i)].Author
                    = Match(pattern, Strip(lines[i])).author
              /\ data[Rank(NamedIdx(lines, pattern), i)].Message
                    = ExpectedBody(lines, pattern, i)
        /\ content = SpecExample =>
              /\ Len(data) = 1
              /\ data[1].Message = "Hello world"

\* C2's case: the transcript of the specification has been read into one record.
C2_Witness ==
    /\ pc = "done"
    /\ content = SpecExample
    /\ Len(data) = 1
    /\ data[1].Message = "Hello world"
    /\ data[1].Author = "Alice"

----------------------------------------------------------------------------
(* Properties of detect_best_pattern *)

\* The number of lines among the first SAMPLE_SIZE of ls that match grammar p.
SampledCount(ls, p) ==
    Cardinality({i \in 1..Len(ls) : i <= SAMPLE_SIZE /\ Matches(p, ls[i])})

\* The number of sampled lines.
SampledLen(ls) == Cardinality({i \in 1..Len(ls) : i <= SAMPLE_SIZE})

\* The number of lines of all of ls that match grammar p.
TotalCount(ls, p) == Cardinality(MatchIdx(ls, p))

\* C3: the grammar returned has the highest count of matching lines among the
\* first 100 lines (all lines if fewer); of the grammars with that count it is
\* the earliest in the list; it is the first grammar when no sampled line matches.
C3_HighestCountEarliestWins ==
    d_pc = "done" =>
        /\ best_pattern \in 1..Len(MESSAGE_PATTERNS)
        /\ \A q \in 1..Len(MESSAGE_PATTERNS) :
              /\ SampledCount(d_lines, q) <= SampledCount(d_lines, best_pattern)
              /\ q < best_pattern =>
                    SampledCount(d_lines, q) < SampledCount(d_lines, best_pattern)
        /\ (\A q \in 1..Len(MESSAGE_PATTERNS) : SampledCount(d_lines, q) = 0)
              => best_pattern = 1

\* C3's case: a transcript longer than the sample, whose most frequent grammar
\* over all lines is not the most frequent one of the sample, and is not returned.
C3_Witness ==
    /\ d_pc = "done"
    /\ Len(d_lines) > SAMPLE_SIZE
    /\ \E q \in 1..Len(MESSAGE_PATTERNS) :
          /\ TotalCount(d_lines, q) > TotalCount(d_lines, best_pattern)
          /\ SampledCount(d_lines, q) < SampledCount(d_lines, best_pattern)

\* C4, as claimed: whenever more than half of the lines of the transcript match
\* grammar 3, grammar 3 is selected.
C4_MajorityOfAllLines ==
    d_pc = "done" /\ 2 * TotalCount(d_lines, 3) > Len(d_lines) => best_pattern = 3

\* C4, amended: whenever more than half of the sampled lines (the first 100, or
\* all lines if fewer) match grammar 3, grammar 3 is selected, whatever the
\* other lines match.
C4_MajorityOfSampledLines ==
    d_pc = "done" /\ 2 * SampledCount(d_lines, 3) > SampledLen(d_lines)
        => best_pattern = 3

\* C4's case: grammar 3 has the majority of the sample, some line matches
\* grammar 1, and grammar 3 is returned.
C4_Witness ==
    /\ d_pc = "done"
    /\ 2 * SampledCount(d_lines, 3) > SampledLen(d_lines)
    /\ SampledCount(d_lines, 1) > 0
    /\ best_pattern = 3

----------------------------------------------------------------------------
(* Properties of the timestamps *)

\* parse_chat_content has returned a frame it built timestamps for.
Returned == pc = "done" /\ data # <<>>

\* C5, as claimed: the month-first attempt is made only if fewer than half of the
\* rows parsed day-first, and with half or more of them parsed the day-first
\* timestamps are the ones used.
C5_RetryBelowHalf ==
    Returned =>
        /\ dayfirst = FALSE => 2 * NotNaCount(dayfirst_col[1]) < Len(data)
        /\ 2 * NotNaCount(dayfirst_col[1]) >= Len(data) => datetime_col = dayfirst_col

\* C5, amended: the month-first attempt is made exactly when not more than half
\* of the rows parsed day-first; with more than half of them parsed, it is not
\* made and the day-first timestamps are the ones used.
C5_RetryUnlessMostParsed ==
    Returned =>
        /\ dayfirst = FALSE <=> 2 * NotNaCount(dayfirst_col[1]) <= Len(data)
        /\ monthfirst_col # None <=> 2 * NotNaCount(dayfirst_col[1]) <= Len(data)
        /\ 2 * NotNaCount(dayfirst_col[1]) > Len(data) =>
              /\ datetime_col = dayfirst_col
              /\ \A r \in 1..Len(df) : df[r].DateTime.dayfirst

\* C5's case: exactly half of the rows parsed day-first, and the month-first
\* attempt was made.
C5_Witness ==
    /\ Returned
    /\ 2 * NotNaCount(dayfirst_col[1]) = Len(data)
    /\ dayfirst = FALSE

\* Neither attempt parsed most of the rows.
NeitherParsedMost ==
    /\ Returned
    /\ monthfirst_col # None
    /\ 2 * NotNaCount(dayfirst_col[1]) <= Len(data)
    /\ 2 * NotNaCount(monthfirst_col[1]) <= Len(data)

\* C6, as claimed: when neither attempt parsed most of the rows, the timestamps
\* stored are those of the fallback call, not those of the month-first attempt.
C6_FallbackIsStored == NeitherParsedMost => date_branch = "fallback"

\* C6, amended: when neither attempt parsed most of the rows, the timestamps
\* stored are those the month-first attempt returned; the fallback call is not
\* made.
C6_MonthFirstIsStored ==
    NeitherParsedMost =>
        /\ date_branch = "loop"
        /\ datetime_col = monthfirst_col
        /\ Len(df) = NotNaCount(monthfirst_col[1])
        /\ \A r \in 1..Len(df) : df[r].DateTime = monthfirst_col[1][df[r].Index + 1]

\* C6's case: neither attempt parsed most rows, and a row of the month-first
\* attempt is in the frame returned.
C6_Witness == NeitherParsedMost /\ df # <<>> /\ Len(df) < Len(data)

\* C7: every record returned has a valid timestamp; a row whose timestamp did
\* not parse under the strategy used is dropped, every row whose timestamp did
\* parse is kept, with its fields, in the original order.
C7_ValidRowsKeptInOrder ==
    pc = "done" /\ date_branch # "" =>
        /\ \A r \in 1..Len(df) :
              /\ df[r].DateTime.valid
              /\ df[r].Index + 1 \in 1..Len(data)
              /\ df[r].DateTime = datetime_col[1][df[r].Index + 1]
              /\ df[r].Author = data[df[r].Index + 1].Author
              /\ df[r].Message = data[df[r].Index + 1].Message
        /\ \A r \in 1..(Len(df) - 1) : df[r].Index < df[r + 1].Index
        /\ \A k \in 1..Len(data) :
              datetime_col[1][k].valid <=> \E r \in 1..Len(df) : df[r].Index + 1 = k

\* C7's case: of three rows the middle one did not parse; the other two are
\* returned.
C7_Witness ==
    /\ pc = "done"
    /\ Len(data) = 3
    /\ Len(df) = 2
    /\ df[1].Index = 0
    /\ df[2].Index = 2

\* C8: parse_chat_content does not raise, and an empty text, a text no line of
\* which matches the grammar, and a text whose rows all have timestamps that do
\* not parse give an empty frame.
C8_NeverRaisesEmptyStore ==
    /\ pc # "raised"
    /\ pc \in {"start", "lines", "dayfirst", "monthfirst", "assign", "done"}
    /\ pc = "done" /\ content = "" => df = <<>>
    /\ pc = "done" /\ MatchIdx(lines, pattern) = {} => df = <<>>
    /\ pc = "done" /\ datetime_col # None /\ NotNaCount(datetime_col[1]) = 0 => df = <<>>

\* C8's case: a text with rows, none of which has a timestamp that parses, has
\* been parsed to the empty frame.
C8_Witness ==
    /\ pc = "done"
    /\ data # <<>>
    /\ datetime_col # None
    /\ NotNaCount(datetime_col[1]) = 0
    /\ df = <<>>

----------------------------------------------------------------------------
(* utils.clean_name *)

Letters ==
    {"a", "b", "c", "d", "e", "f", "g", "h", "i", "j", "k", "l", "m",
     "n", "o", "p", "q", "r", "s", "t", "u", "v", "w", "x", "y", "z",
     "A", "B", "C", "D", "E", "F", "G", "H", "I", "J", "K", "L", "M",
     "N", "O", "P", "Q", "R", "S", "T", "U", "V", "W", "X", "Y", "Z"}

\* What [\w\s\-] matches (the ASCII part).
KeptChars == Letters \cup Digits \cup {"_"} \cup Whitespace \cup {"-"}

RECURSIVE RemoveOthers(_, _)
\* re.sub(r'[^\w\s\-]', '', name), from position i on
RemoveOthers(s, i) ==
    IF i > Len(s) THEN ""
    ELSE (IF Ch(s, i) \in KeptChars THEN Ch(s, i) ELSE "") \o RemoveOthers(s, i + 1)

MAX_LENGTH == 15

\* (cleaned[:max_length] + "..") if len(cleaned) > max_length else (cleaned or "Unknown")
Truncate(cleaned) ==
    IF Len(cleaned) > MAX_LENGTH THEN SubSeq(cleaned, 1, MAX_LENGTH) \o ".."
    ELSE IF cleaned = "" THEN "Unknown"
    ELSE cleaned

clean_name(name) == Truncate(Strip(RemoveOthers(name, 1)))

----------------------------------------------------------------------------
(* ChatAnalyzer: what the metrics share *)

\* The injective sequences of length n over S.
Arrangements(S, n) ==
    {f \in [1..n -> S] : \A i \in 1..n : \A j \in 1..n : i # j => f[i] # f[j]}

\* The rows of R with the least DateTime of R.
Earliest(frame, R) == {i \in R : \A j \in R : frame[i].DateTime <= frame[j].DateTime}

RECURSIVE SortedFrom(_, _)
\* The ascending arrangements of the rows R of a frame: one of the earliest rows,
\* then an ascending arrangement of the others.
SortedFrom(frame, R) ==
    IF R = {} THEN {<<>>}
    ELSE UNION {{<<frame[i]>> \o rest : rest \in SortedFrom(frame, R \ {i})} :
                   i \in Earliest(frame, R)}

\* df.sort_values('DateTime'): the default kind, 'quicksort', puts the rows in
\* ascending order of DateTime and promises nothing on the order of rows with
\* equal DateTime, so every ascending arrangement is an outcome; a frame whose
\* rows are in strictly ascending order is its only ascending arrangement.
SortValues(frame) ==
    IF \A r \in 2..Len(frame) : frame[r - 1].DateTime < frame[r].DateTime THEN {frame}
    ELSE SortedFrom(frame, DOMAIN frame)

\* The CleanAuthor values of the rows R of a frame.
NamesOf(frame, R) == {frame[r].CleanAuthor : r \in R}

\* The number of rows of R that carry the name.
CountOf(frame, R, name) == Cardinality({r \in R : frame[r].CleanAuthor = name})

RECURSIVE CountsFrom(_, _, _)
\* The arrangements of the names by descending count on the rows R: one of the
\* names with the largest count, then an arrangement of the others.
CountsFrom(frame, R, names) ==
    IF names = {} THEN {<<>>}
    ELSE UNION {{<<a>> \o rest : rest \in CountsFrom(frame, R, names \ {a})} :
                   a \in {n \in names :
                            \A m \in names : CountOf(frame, R, n) >= CountOf(frame, R, m)}}

\* frame['CleanAuthor'].value_counts() on the rows R: the names by descending
\* count; the order of names with equal counts is the sort's to choose.
ValueCounts(frame, R) == CountsFrom(frame, R, NamesOf(frame, R))

\* .head(k)
Head_(seq, k) == SubSeq(seq, 1, IF k < Len(seq) THEN k ELSE Len(seq))

\* All the rows of a frame.
Rows(frame) == 1..Len(frame)

\* round(num / den, 1) in tenths, for num >= 0 and den > 0: to the nearest tenth,
\* an exact half to the even tenth.
RoundTenths(num, den) ==
    IF 2 * ((10 * num) % den) > den THEN (10 * num) \div den + 1
    ELSE IF 2 * ((10 * num) % den) < den THEN (10 * num) \div den
    ELSE IF ((10 * num) \div den) % 2 = 0 THEN (10 * num) \div den
    ELSE (10 * num) \div den + 1

----------------------------------------------------------------------------
(* ChatAnalyzer.analyze_response_time *)

REPLY_WINDOW == 720

\* df['Author'].shift(1): nothing on the first row
Prev_Author(sd, r) == IF r = 1 THEN None ELSE <<sd[r - 1].Author>>

\* df['DateTime'].diff().dt.total_seconds() / 60: nothing on the first row
Time_Diff(sd, r) == IF r = 1 THEN None ELSE <<sd[r].DateTime - sd[r - 1].DateTime>>

\* A window that takes a gap of exactly 720 minutes: the variant C10 tells from
\* IsReply.
IsReplyAtWindow(a, prev, diff) ==
    /\ <<a>> # prev
    /\ diff # None /\ diff[1] <= REPLY_WINDOW
    /\ diff # None /\ diff[1] > 0

\* (df['Author'] != df['Prev_Author']) & (df['Time_Diff'] < 720) & (df['Time_Diff'] > 0)
IsReply(a, prev, diff) ==
    /\ <<a>> # prev
    /\ diff # None /\ diff[1] < REPLY_WINDOW
    /\ diff # None /\ diff[1] > 0

\* replies: the rows of sd the filter keeps
Replies(sd) ==
    {r \in Rows(sd) : IsReply(sd[r].Author, Prev_Author(sd, r), Time_Diff(sd, r))}

\* replies[replies['CleanAuthor'].isin(top_authors)]
InTop(sd, R, top_authors) ==
    {r \in R : \E k \in DOMAIN top_authors : top_authors[k] = sd[r].CleanAuthor}

RECURSIVE SumDiff(_, _)
\* The sum of Time_Diff over the rows R.
SumDiff(sd, R) ==
    IF R = {} THEN 0
    ELSE Time_Diff(sd, CHOOSE r \in R : TRUE)[1]
         + SumDiff(sd, R \ {CHOOSE r \in R : TRUE})

\* The rows of R of one name: a group of groupby('CleanAuthor').
Group(sd, R, name) == {r \in R : sd[r].CleanAuthor = name}

\* mean(a) <= mean(b) for the groups of two names
MeanLeq(sd, R, a, b) ==
    SumDiff(sd, Group(sd, R, a)) * Cardinality(Group(sd, R, b))
        <= SumDiff(sd, Group(sd, R, b)) * Cardinality(Group(sd, R, a))

\* replies.groupby('CleanAuthor')['Time_Diff'].mean().sort_values(): the names by
\* ascending mean; the order of names with equal means is the sort's to choose.
AvgTime(sd, R) ==
    {f \in Arrangements(NamesOf(sd, R), Cardinality(NamesOf(sd, R))) :
        \A i \in DOMAIN f : \A j \in DOMAIN f : i < j => MeanLeq(sd, R, f[i], f[j])}

\* round(replies['Time_Diff'].mean(), 1): the mean of no rows is NaN
OverallMean(sd, R) ==
    IF R = {} THEN [kind |-> "nan", tenths |-> 0]
    ELSE [kind |-> "number", tenths |-> RoundTenths(SumDiff(sd, R), Cardinality(R))]

\* The dictionary returned when there are replies; R is replies after the
\* top-authors filter and avg_time the names in the order of the sorted means.
ResponseTimeResult(sd, R, avg_time) ==
    [data |-> [k \in DOMAIN avg_time |->
                  [name |-> avg_time[k],
                   response_time |-> RoundTenths(SumDiff(sd, Group(sd, R, avg_time[k])),
                                                 Cardinality(Group(sd, R, avg_time[k])))]],
     fastest_responder |-> IF avg_time = <<>> THEN None ELSE <<avg_time[1]>>,
     average_response_time |-> OverallMean(sd, R)]

\* A result that reports a NaN mean where there are no replies: the variant C11
\* tells from NoReplies.
NoRepliesNaN ==
    [data |-> <<>>, fastest_responder |-> None,
     average_response_time |-> [kind |-> "nan", tenths |-> 0]]

\* if replies.empty: return {"data": [], "fastest_responder": None, ...}
NoReplies ==
    [data |-> <<>>, fastest_responder |-> None,
     average_response_time |-> [kind |-> "none", tenths |-> 0]]

----------------------------------------------------------------------------
(* ChatAnalyzer.analyze_conversation_roles *)

SILENCE_HOURS == 3

\* Starters from a silence of exactly 3 hours on: the variant C21 tells from
\* Starters.
StartersAtThreeHours(sd) ==
    {r \in Rows(sd) : r > 1 /\ sd[r].DateTime - sd[r - 1].DateTime >= 60 * SILENCE_HOURS}

\* df[df['time_since_last'] > 3]: the rows more than 3 hours after their predecessor
Starters(sd) ==
    {r \in Rows(sd) : r > 1 /\ sd[r].DateTime - sd[r - 1].DateTime > 60 * SILENCE_HOURS}

\* Enders that count the last row as well: the variant C28 tells from Enders.
EndersWithLast(sd) ==
    {r \in Rows(sd) :
        r = Len(sd) \/ sd[r + 1].DateTime - sd[r].DateTime > 60 * SILENCE_HOURS}

\* df[df['time_to_next_hours'] > 3]: the rows more than 3 hours before their successor
Enders(sd) ==
    {r \in Rows(sd) :
        r < Len(sd) /\ sd[r + 1].DateTime - sd[r].DateTime > 60 * SILENCE_HOURS}

ROLES_HEAD == 10

\* [{"name": name, "count": int(count)} for name, count in counts.items()]
RoleEntries(sd, R, counts) ==
    [k \in DOMAIN counts |-> [name |-> counts[k], count |-> CountOf(sd, R, counts[k])]]

RolesResult(sd, starter_counts, ender_counts) ==
    [starters |-> RoleEntries(sd, Starters(sd), starter_counts),
     enders |-> RoleEntries(sd, Enders(sd), ender_counts),
     top_starter |-> IF starter_counts = <<>> THEN None ELSE <<starter_counts[1]>>,
     top_ender |-> IF ender_counts = <<>> THEN None ELSE <<ender_counts[1]>>]

----------------------------------------------------------------------------
(* ChatAnalyzer.detect_monologues *)

\* A test that leaves out the runs of exactly min_consecutive messages: the
\* variant C15 tells from CloseRun.
CloseRunLonger(monologue_data, current_author, current_count, min_consecutive) ==
    IF current_count > min_consecutive
    THEN Append(monologue_data,
                [author |-> clean_name(current_author[1]), count |-> current_count])
    ELSE monologue_data

\* if current_count >= min_consecutive: monologue_data.append({...})
CloseRun(monologue_data, current_author, current_count, min_consecutive) ==
    IF current_count >= min_consecutive
    THEN Append(monologue_data,
                [author |-> clean_name(current_author[1]), count |-> current_count])
    ELSE monologue_data

RECURSIVE RunLoop(_, _, _, _, _, _)
\* The loop over the rows from row r on, then the statement after it.
RunLoop(sd, r, monologue_data, current_author, current_count, min_consecutive) ==
    IF r > Len(sd)
    THEN CloseRun(monologue_data, current_author, current_count, min_consecutive)
    ELSE IF <<sd[r].Author>> = current_author
    THEN RunLoop(sd, r + 1, monologue_data, current_author, current_count + 1,
                 min_consecutive)
    ELSE RunLoop(sd, r + 1,
                 CloseRun(monologue_data, current_author, current_count, min_consecutive),
                 <<sd[r].Author>>, 1, min_consecutive)

\* totals[item['author']] += item['count'] on a dict kept in insertion order
AddTotal(totals, item) ==
    IF \E k \in DOMAIN totals : totals[k].name = item.author
    THEN [k \in DOMAIN totals |->
            IF totals[k].name = item.author
            THEN [name |-> totals[k].name, total |-> totals[k].total + item.count]
            ELSE totals[k]]
    ELSE Append(totals, [name |-> item.author, total |-> item.count])

RECURSIVE Totals(_, _, _)
\* for item in monologue_data: totals[item['author']] += item['count']
Totals(monologue_data, k, totals) ==
    IF k > Len(monologue_data) THEN totals
    ELSE Totals(monologue_data, k + 1, AddTotal(totals, monologue_data[k]))

\* The number of entries that sorted(..., reverse=True) puts before entry k: those
\* with a larger total, and the earlier ones with the same total (sorted is stable).
Before(totals, k) ==
    Cardinality({j \in DOMAIN totals :
        \/ totals[j].total > totals[k].total
        \/ totals[j].total = totals[k].total /\ j < k})

\* sorted(totals.items(), key=lambda x: x[1], reverse=True)
SortedTotals(totals) ==
    [i \in DOMAIN totals |-> totals[CHOOSE k \in DOMAIN totals : Before(totals, k) = i - 1]]

MONOLOGUES_HEAD == 10

MonologuesResult(sorted_totals) ==
    [data |-> [k \in DOMAIN sorted_totals |->
                  [name |-> sorted_totals[k].name,
                   consecutive_messages |-> sorted_totals[k].total]],
     top_monologuer |-> IF sorted_totals = <<>> THEN None ELSE <<sorted_totals[1].name>>]

----------------------------------------------------------------------------
(* The metrics engine on its own: a store, then any sequence of metric calls *)

MaxMsgs == 3

\* The messages a store is drawn from, as <<raw author, minute>>: "B" and "B."
\* are two raw names with one clean name; the gaps 0, 1, 5, 6, 719, 720 and 725
\* minutes occur, between the same and between different authors.
PoolMessages ==
    {<<"A", 0>>, <<"B", 5>>, <<"B", 6>>, <<"B.", 6>>, <<"A", 725>>, <<"B", 725>>}

RECURSIVE Stores(_)
\* The stores of n messages, in transcript order; row r has index label r - 1.
Stores(n) ==
    IF n = 0 THEN {<<>>}
    ELSE {Append(st, [Index |-> n - 1, Author |-> m[1], CleanAuthor |-> clean_name(m[1]),
                      DateTime |-> m[2]]) :
             st \in Stores(n - 1), m \in PoolMessages}

Limits == {1, 10}
MinConsecutives == {2, 3}

AnalyzerInit ==
    /\ ParserIdle /\ DetectIdle /\ ServerIdle /\ StatsIdle
    /\ store \in UNION {Stores(n) : n \in 0..MaxMsgs}
    /\ sorted_df = <<>> /\ metric = "" /\ arg = 0 /\ user_name = ""
    /\ result = <<>>

\* analyze_response_time(limit), returning at "if replies.empty"
ResponseTimeNoReplies ==
    \E limit \in Limits : \E sd \in SortValues(store) :
        /\ Replies(sd) = {}
        /\ sorted_df' = sd
        /\ metric' = "response_time"
        /\ arg' = limit
        /\ result' = NoReplies
        /\ UNCHANGED <<store, user_name, parserVars, detectVars, serverVars, statsVars>>

\* analyze_response_time(limit), returning the means
ResponseTime ==
    \E limit \in Limits : \E sd \in SortValues(store) :
        /\ Replies(sd) # {}
        /\ \E counts \in ValueCounts(store, Rows(store)) :
              \E avg_time \in AvgTime(sd, InTop(sd, Replies(sd), Head_(counts, limit))) :
                 /\ sorted_df' = sd
                 /\ metric' = "response_time"
                 /\ arg' = limit
                 /\ result' = ResponseTimeResult(
                                  sd, InTop(sd, Replies(sd), Head_(counts, limit)), avg_time)
        /\ UNCHANGED <<store, user_name, parserVars, detectVars, serverVars, statsVars>>

\* analyze_conversation_roles()
ConversationRoles ==
    \E sd \in SortValues(store) :
        \E starter_counts \in ValueCounts(sd, Starters(sd)) :
            \E ender_counts \in ValueCounts(sd, Enders(sd)) :
                /\ sorted_df' = sd
                /\ metric' = "conversation_roles"
                /\ arg' = 0
                /\ result' = RolesResult(sd, Head_(starter_counts, ROLES_HEAD),
                                         Head_(ender_counts, ROLES_HEAD))
                /\ UNCHANGED <<store, user_name, parserVars, detectVars, serverVars, statsVars>>

\* detect_monologues(min_consecutive)
Monologues ==
    \E min_consecutive \in MinConsecutives : \E sd \in SortValues(store) :
        /\ sorted_df' = sd
        /\ metric' = "monologues"
        /\ arg' = min_consecutive
        /\ result' = MonologuesResult(
                        Head_(SortedTotals(Totals(
                                  RunLoop(sd, 1, <<>>, None, 0, min_consecutive), 1, <<>>)),
                              MONOLOGUES_HEAD))
        /\ UNCHANGED <<store, user_name, parserVars, detectVars, serverVars, statsVars>>

AnalyzerNext ==
    \/ ResponseTimeNoReplies
    \/ ResponseTime
    \/ ConversationRoles
    \/ Monologues

AnalyzerSpec == AnalyzerInit /\ [][AnalyzerNext]_vars

----------------------------------------------------------------------------
(* Properties of the metrics *)

\* C9: in the response time, conversation roles and monologues metrics the rows
\* are processed in ascending order of timestamp, and two rows with the same
\* timestamp keep their transcript order.
C9_SortIsStable ==
    metric \in {"response_time", "conversation_roles", "monologues"} =>
        /\ Len(sorted_df) = Len(store)
        /\ \A i \in 1..Len(sorted_df) : \A j \in 1..Len(sorted_df) :
              i < j =>
                 /\ sorted_df[i].DateTime <= sorted_df[j].DateTime
                 /\ sorted_df[i].DateTime = sorted_df[j].DateTime
                       => sorted_df[i].Index < sorted_df[j].Index

\* Row r of the sorted frame answers row r - 1: another author wrote the row
\* before, more than 0 and less than 720 minutes earlier.
AnswersPrevious(r) ==
    /\ r \in 2..Len(sorted_df)
    /\ sorted_df[r].Author # sorted_df[r - 1].Author
    /\ sorted_df[r].DateTime - sorted_df[r - 1].DateTime > 0
    /\ sorted_df[r].DateTime - sorted_df[r - 1].DateTime < 720

RECURSIVE AnswerGapSum(_, _)
\* The sum of the gaps of the answers of a name among the rows 1..r.
AnswerGapSum(name, r) ==
    IF r < 2 THEN 0
    ELSE (IF AnswersPrevious(r) /\ sorted_df[r].CleanAuthor = name
          THEN sorted_df[r].DateTime - sorted_df[r - 1].DateTime ELSE 0)
         + AnswerGapSum(name, r - 1)

\* The number of answers of a name.
AnswerCount(name) ==
    Cardinality({r \in 1..Len(sorted_df) :
                    AnswersPrevious(r) /\ sorted_df[r].CleanAuthor = name})

\* The store of the example: A at 09:00, B at 09:05, B at 09:06.
ExampleStore ==
    <<[Index |-> 0, Author |-> "A", CleanAuthor |-> "A", DateTime |-> 0],
      [Index |-> 1, Author |-> "B", CleanAuthor |-> "B", DateTime |-> 5],
      [Index |-> 2, Author |-> "B", CleanAuthor |-> "B", DateTime |-> 6]>>

\* C10: in analyze_response_time a row is a reply iff, in timestamp order, its
\* author differs from the author of the row before and the gap to it is more
\* than 0 and less than 720 minutes; every reported name has a reply and its
\* response_time is the mean gap of its replies, to one decimal; a name without
\* a reply is not reported, and with a limit that covers all names every name
\* with a reply is; A 09:00, B 09:05, B 09:06 gives B = 5.0 and no A.
C10_MeanReplyGapPerAuthor ==
    metric = "response_time" =>
        /\ \A k \in DOMAIN result.data :
              /\ AnswerCount(result.data[k].name) > 0
              /\ 2 * (10 * AnswerGapSum(result.data[k].name, Len(sorted_df))
                      - result.data[k].response_time * AnswerCount(result.data[k].name))
                    <= AnswerCount(result.data[k].name)
              /\ 2 * (result.data[k].response_time * AnswerCount(result.data[k].name)
                      - 10 * AnswerGapSum(result.data[k].name, Len(sorted_df)))
                    <= AnswerCount(result.data[k].name)
              /\ \A j \in DOMAIN result.data :
                    j # k => result.data[j].name # result.data[k].name
        /\ arg = 10 =>
              \A r \in 1..Len(sorted_df) :
                  AnswersPrevious(r) =>
                      \E k \in DOMAIN result.data :
                          result.data[k].name = sorted_df[r].CleanAuthor
        /\ store = ExampleStore =>
              /\ Len(result.data) = 1
              /\ result.data[1].name = "B"
              /\ result.data[1].response_time = 50

\* C10's case: the example store has been measured, and B alone is reported,
\* with 5.0 minutes.
C10_Witness ==
    /\ metric = "response_time"
    /\ store = ExampleStore
    /\ Len(result.data) = 1
    /\ result.data[1].name = "B"
    /\ result.data[1].response_time = 50

\* C11: when no row of the store is a reply, analyze_response_time returns an
\* empty data list, no fastest responder and no average (null, not a number and
\* not NaN); a mean is only ever taken over at least one reply.
C11_NoRepliesGiveEmptyResult ==
    metric = "response_time" =>
        /\ (\A r \in 1..Len(sorted_df) : ~AnswersPrevious(r)) =>
              /\ result.data = <<>>
              /\ result.fastest_responder = None
              /\ result.average_response_time.kind = "none"
        /\ result.average_response_time.kind = "number" =>
              \E r \in 1..Len(sorted_df) : AnswersPrevious(r)
        /\ \A k \in DOMAIN result.data : AnswerCount(result.data[k].name) > 0

\* C11's case: a store of several messages of one author has been measured.
C11_Witness ==
    /\ metric = "response_time"
    /\ Len(store) >= 2
    /\ \A r \in 1..Len(store) : store[r].Author = "A"
    /\ result.data = <<>>
    /\ result.fastest_responder = None
    /\ result.average_response_time.kind = "none"

----------------------------------------------------------------------------
(* detect_monologues on its own, on longer stores *)

MaxRun == 6

\* Raw author names of the runs: "B" and "B." have one clean name.
RunAuthors == {"A", "B", "B."}

\* The store of a sequence of raw authors, one minute apart.
StoreOf(authors) ==
    [r \in DOMAIN authors |->
        [Index |-> r - 1, Author |-> authors[r], CleanAuthor |-> clean_name(authors[r]),
         DateTime |-> r]]

\* One more author than the list holds.
ManyAuthors == <<"A", "B", "C", "D", "E", "F", "G", "H", "I", "J", "K">>

\* Three messages of each of ManyAuthors in turn, and a fourth of the last.
ManyRuns ==
    [r \in 1..(3 * Len(ManyAuthors) + 1) |->
        IF r > 3 * Len(ManyAuthors) THEN ManyAuthors[Len(ManyAuthors)]
        ELSE ManyAuthors[(r - 1) \div 3 + 1]]

MonologueInit ==
    /\ ParserIdle /\ DetectIdle /\ ServerIdle /\ StatsIdle
    /\ store \in {StoreOf(a) : a \in UNION {[1..n -> RunAuthors] : n \in 0..MaxRun}}
                 \cup {StoreOf(ManyRuns)}
    /\ sorted_df = <<>> /\ metric = "" /\ arg = 0 /\ user_name = ""
    /\ result = <<>>

MonologueSpec == MonologueInit /\ [][Monologues]_vars

\* Row r of the sorted frame is one of at least 3 consecutive rows of one author.
InLongRun(r) ==
    \E a \in 1..r : \E b \in r..Len(sorted_df) :
        /\ b - a + 1 >= 3
        /\ \A k \in a..b : sorted_df[k].Author = sorted_df[r].Author

\* The number of rows in such runs whose author has the clean name.
LongRunTotal(name) ==
    Cardinality({r \in 1..Len(sorted_df) :
                    InLongRun(r) /\ clean_name(sorted_df[r].Author) = name})

\* The clean names that have a row in such a run.
LongRunNames == {clean_name(sorted_df[r].Author) : r \in {q \in 1..Len(sorted_df) : InLongRun(q)}}

\* C15: detect_monologues (with the default of 3) reports for a name the sum of
\* the lengths of the maximal runs of at least 3 consecutive rows of one author,
\* in timestamp order; rows in runs of 1 or 2 count for nothing; the list is in
\* descending order of total and holds the 10 largest totals at most; the
\* authors A,A,A,B,A,A give A = 3 and no B.
C15_RunsOfThreeSummedPerAuthor ==
    metric = "monologues" /\ arg = 3 =>
        /\ \A k \in DOMAIN result.data :
              /\ result.data[k].name \in LongRunNames
              /\ result.data[k].consecutive_messages = LongRunTotal(result.data[k].name)
              /\ \A j \in DOMAIN result.data :
                    /\ j # k => result.data[j].name # result.data[k].name
                    /\ k < j => result.data[k].consecutive_messages
                                   >= result.data[j].consecutive_messages
              /\ \A name \in LongRunNames :
                    (\A j \in DOMAIN result.data : result.data[j].name # name)
                        => LongRunTotal(name) <= result.data[k].consecutive_messages
        /\ Len(result.data) <= 10
        /\ Cardinality(LongRunNames) <= 10 => Len(result.data) = Cardinality(LongRunNames)
        /\ Cardinality(LongRunNames) > 10 => Len(result.data) = 10
        /\ store = StoreOf(<<"A", "A", "A", "B", "A", "A">>) =>
              /\ Len(result.data) = 1
              /\ result.data[1].name = "A"
              /\ result.data[1].consecutive_messages = 3

\* C15's case: the authors A,A,A,B,A,A have been scanned: A has 3, B is not
\* reported.
C15_Witness ==
    /\ metric = "monologues" /\ arg = 3
    /\ store = StoreOf(<<"A", "A", "A", "B", "A", "A">>)
    /\ Len(result.data) = 1
    /\ result.data[1].name = "A"
    /\ result.data[1].consecutive_messages = 3

\* Eleven authors with a run each have been scanned: ten are reported.
ManyRunsReported ==
    /\ metric = "monologues" /\ arg = 3
    /\ store = StoreOf(ManyRuns)
    /\ Len(result.data) = 10
    /\ result.data[1].name = "K"

----------------------------------------------------------------------------
(* utils: is_media_message, extract_emojis, get_sentiment *)

UpperCase == <<"A", "B", "C", "D", "E", "F", "G", "H", "I", "J", "K", "L", "M",
               "N", "O", "P", "Q", "R", "S", "T", "U", "V", "W", "X", "Y", "Z">>
LowerCase == <<"a", "b", "c", "d", "e", "f", "g", "h", "i", "j", "k", "l", "m",
               "n", "o", "p", "q", "r", "s", "t", "u", "v", "w", "x", "y", "z">>

\* str.lower() of one character
LowerChar(c) ==
    IF \E k \in DOMAIN UpperCase : UpperCase[k] = c
    THEN LowerCase[CHOOSE k \in DOMAIN UpperCase : UpperCase[k] = c]
    ELSE c

RECURSIVE Lower(_, _)
\* str(message).lower(), from position i on
Lower(s, i) == IF i > Len(s) THEN "" ELSE LowerChar(Ch(s, i)) \o Lower(s, i + 1)

\* keyword in text
Contains(text, keyword) ==
    \E i \in 1..(Len(text) - Len(keyword) + 1) :
        SubSeq(text, i, i + Len(keyword) - 1) = keyword

MEDIA_KEYWORDS == {"omitted", "deleted", "<media"}

\* any(keyword in lower_msg for keyword in ['omitted', 'deleted', '<media'])
is_media_message(message) ==
    \E keyword \in MEDIA_KEYWORDS : Contains(Lower(message, 1), keyword)

\* emoji.EMOJI_DATA: a TLA+ string holds no emoji, "~" stands for one emoji
\* character.
EMOJI_DATA == {"~"}

\* len(extract_emojis(text)): the characters of text that are in EMOJI_DATA
EmojiCount(text) == Cardinality({i \in 1..Len(text) : Ch(text, i) \in EMOJI_DATA})

\* TextBlob(str(text)).sentiment.polarity, in hundredths: the part of TextBlob's
\* lexicon the messages of the model use; words it does not hold score 0.
get_sentiment(text) ==
    IF Contains(Lower(text, 1), "good") THEN 70
    ELSE IF Contains(Lower(text, 1), "bad") THEN 0 - 70
    ELSE IF Contains(Lower(text, 1), "ok") THEN 50
    ELSE 0

----------------------------------------------------------------------------
(* ChatAnalyzer.__init__ and _precompute *)

\* DateTime is in minutes from a Monday, 00:00.
\* self.df['DateTime'].dt.hour
HourOf(t) == (t \div 60) % 24

days_order == <<"Monday", "Tuesday", "Wednesday", "Thursday", "Friday", "Saturday",
                "Sunday">>

\* self.df['DateTime'].dt.day_name()
DayName(t) == days_order[((t \div 1440) % 7) + 1]

\* A row of self.df after __init__: the parsed fields, CleanAuthor and the
\* columns of _precompute.
MakeRow(index, name, t, message) ==
    [Index |-> index, Author |-> name, CleanAuthor |-> clean_name(name),
     DateTime |-> t, Message |-> message,
     Hour |-> HourOf(t), Day |-> DayName(t), msg_length |-> Len(message)]

----------------------------------------------------------------------------
(* ChatAnalyzer.analyze_volume, analyze_hourly_activity, analyze_weekly_activity *)

\* round(num / den, 1) in tenths for a num of either sign.
RoundTenthsSigned(num, den) ==
    IF num >= 0 THEN RoundTenths(num, den) ELSE 0 - RoundTenths(0 - num, den)

\* A total that counts the reported authors' messages only: the variant C12 tells
\* from Total.
TotalOfReported(st, volume) ==
    Cardinality({r \in Rows(st) : \E k \in DOMAIN volume : volume[k] = st[r].CleanAuthor})

\* total = len(self.df)
Total(st, volume) == Len(st)

\* The dictionary analyze_volume returns for volume, the names of
\* value_counts().head(limit) in order; pct is the percentage of the insight, in
\* tenths, None when volume is empty.
VolumeResult(st, volume) ==
    [data |-> [k \in DOMAIN volume |->
                  [name |-> volume[k], messages |-> CountOf(st, Rows(st), volume[k])]],
     total_messages |-> Total(st, volume),
     top_contributor |-> IF volume = <<>> THEN None ELSE <<volume[1]>>,
     pct |-> IF volume = <<>> THEN None
             ELSE <<RoundTenths(100 * CountOf(st, Rows(st), volume[1]), Total(st, volume))>>]

\* What analyze_volume(limit) can return on the store st.
VolumeOutcomes(st, limit) ==
    {VolumeResult(st, Head_(counts, limit)) : counts \in ValueCounts(st, Rows(st))}

\* The number of rows of st whose column has the value.
CountWhere(st, column, value) == Cardinality({r \in Rows(st) : st[r][column] = value})

\* A choice of the last of the largest counts: the variant C14 tells from IdxMax.
IdxMaxLast(counts) ==
    CHOOSE k \in DOMAIN counts :
        /\ \A j \in DOMAIN counts : counts[j] <= counts[k]
        /\ \A j \in DOMAIN counts : counts[j] = counts[k] => j <= k

\* Series.idxmax() by position: the first position that holds the largest value.
IdxMax(counts) ==
    CHOOSE k \in DOMAIN counts :
        /\ \A j \in DOMAIN counts : counts[j] <= counts[k]
        /\ \A j \in DOMAIN counts : counts[j] = counts[k] => k <= j

HOURS == 24

\* Counts that leave out the last hour: the variant C13 tells from HourCounts.
HourCountsShort(st) == [k \in 1..(HOURS - 1) |-> CountWhere(st, "Hour", k - 1)]

\* value_counts().sort_index().reindex(range(24), fill_value=0): position k holds
\* the count of hour k - 1
HourCounts(st) == [k \in 1..HOURS |-> CountWhere(st, "Hour", k - 1)]

\* The dictionary analyze_hourly_activity returns.
HourlyResult(hour_counts) ==
    [data |-> [k \in DOMAIN hour_counts |-> [hour |-> k - 1, messages |-> hour_counts[k]]],
     peak_hour |-> IdxMax(hour_counts) - 1]

\* value_counts().reindex(days_order, fill_value=0)
DayCounts(st) == [k \in DOMAIN days_order |-> CountWhere(st, "Day", days_order[k])]

RECURSIVE SumAt(_, _)
\* day_counts[[...]].sum(): the sum of the counts at the positions K
SumAt(counts, K) ==
    IF K = {} THEN 0
    ELSE counts[CHOOSE k \in K : TRUE] + SumAt(counts, K \ {CHOOSE k \in K : TRUE})

\* The positions of the names in days_order.
DaysAt(names) == {k \in DOMAIN days_order : days_order[k] \in names}

\* The dictionary analyze_weekly_activity returns.
WeeklyResult(day_counts) ==
    [data |-> [k \in DOMAIN day_counts |-> [day |-> days_order[k], messages |-> day_counts[k]]],
     busiest_day |-> days_order[IdxMax(day_counts)],
     busiest_count |-> day_counts[IdxMax(day_counts)],
     weekend_vs_weekday |->
        [weekend |-> SumAt(day_counts, DaysAt({"Saturday", "Sunday"})),
         weekday |-> SumAt(day_counts, DaysAt({"Monday", "Tuesday", "Wednesday",
                                               "Thursday", "Friday"}))]]

----------------------------------------------------------------------------
(* The metrics engine on stores with messages: any sequence of metric calls *)

MaxRows == 3

\* The messages a store is drawn from, as <<raw author, minute, text>>: Monday
\* 00:00, 00:05 and 00:06, Tuesday 05:00 and Saturday 13:00; "B" and "B." have
\* one clean name; one text is a media placeholder, one holds an emoji, one a
\* link.
PoolRows ==
    {<<"A", 0, "good">>, <<"B", 5, "bad">>, <<"B", 6, "<Media omitted>">>,
     <<"C", 1740, "see http://x.y">>, <<"B.", 7980, "ok ~">>}

RECURSIVE RichStores(_)
\* The stores of n messages, in transcript order; row r has index label r - 1.
RichStores(n) ==
    IF n = 0 THEN {<<>>}
    ELSE {Append(st, MakeRow(n - 1, m[1], m[2], m[3])) :
             st \in RichStores(n - 1), m \in PoolRows}

MetricsInit ==
    /\ ParserIdle /\ DetectIdle /\ ServerIdle /\ StatsIdle
    /\ store \in UNION {RichStores(n) : n \in 0..MaxRows}
    /\ sorted_df = <<>> /\ metric = "" /\ arg = 0 /\ user_name = ""
    /\ result = <<>>

\* analyze_volume(limit)
AnalyzeVolume ==
    /\ metric = ""
    /\ \E limit \in Limits :
        /\ result' \in VolumeOutcomes(store, limit)
        /\ metric' = "volume"
        /\ arg' = limit
        /\ sorted_df' = <<>>
        /\ UNCHANGED <<store, user_name, parserVars, detectVars, serverVars, statsVars>>

\* analyze_hourly_activity()
AnalyzeHourlyActivity ==
    /\ metric = ""
    /\ result' = HourlyResult(HourCounts(store))
    /\ metric' = "hourly_activity"
    /\ arg' = 0
    /\ sorted_df' = <<>>
    /\ UNCHANGED <<store, user_name, parserVars, detectVars, serverVars, statsVars>>

\* analyze_weekly_activity()
AnalyzeWeeklyActivity ==
    /\ metric = ""
    /\ result' = WeeklyResult(DayCounts(store))
    /\ metric' = "weekly_activity"
    /\ arg' = 0
    /\ sorted_df' = <<>>
    /\ UNCHANGED <<store, user_name, parserVars, detectVars, serverVars, statsVars>>

----------------------------------------------------------------------------
(* ChatAnalyzer.analyze_sentiment *)

\* What a metric that raised leaves: the exception.
Raised(exception) == [raised |-> exception]

\* get_sentiment(row['Message']) if not is_media_message(row['Message']) else 0,
\* in hundredths
Sentiment(row) == IF is_media_message(row.Message) THEN 0 ELSE get_sentiment(row.Message)

\* The rows of st whose CleanAuthor is one of the names of top_authors.
RowsOfTop(st, top_authors) ==
    {r \in Rows(st) : \E k \in DOMAIN top_authors : top_authors[k] = st[r].CleanAuthor}

RECURSIVE SumSentiment(_, _)
\* The sum of the Sentiment column over the rows R.
SumSentiment(st, R) ==
    IF R = {} THEN 0
    ELSE Sentiment(st[CHOOSE r \in R : TRUE]) + SumSentiment(st, R \ {CHOOSE r \in R : TRUE})

\* mean(a) >= mean(b) for the Sentiment of the groups of two names
SentimentGeq(st, R, a, b) ==
    SumSentiment(st, Group(st, R, a)) * Cardinality(Group(st, R, b))
        >= SumSentiment(st, Group(st, R, b)) * Cardinality(Group(st, R, a))

\* groupby('CleanAuthor')['Sentiment'].mean().sort_values(ascending=False): the
\* names by descending mean; the order of equal means is the sort's to choose.
AvgSentiment(st, R) ==
    {f \in Arrangements(NamesOf(st, R), Cardinality(NamesOf(st, R))) :
        \A i \in DOMAIN f : \A j \in DOMAIN f : i < j => SentimentGeq(st, R, f[i], f[j])}

\* round(df['Sentiment'].mean() * 100, 1): the mean of no rows is NaN
AverageSentiment(st) ==
    IF st = <<>> THEN [kind |-> "nan", tenths |-> 0]
    ELSE [kind |-> "number",
          tenths |-> RoundTenthsSigned(SumSentiment(st, Rows(st)), Len(st))]

\* The dictionary analyze_sentiment returns; R is the rows of the top authors
\* and avg_sentiment their names in the order of the sorted means.
SentimentResult(st, R, avg_sentiment) ==
    [data |-> [k \in DOMAIN avg_sentiment |->
                  [name |-> avg_sentiment[k],
                   sentiment |-> RoundTenthsSigned(
                                     SumSentiment(st, Group(st, R, avg_sentiment[k])),
                                     Cardinality(Group(st, R, avg_sentiment[k]))),
                   category |-> IF SumSentiment(st, Group(st, R, avg_sentiment[k])) > 0
                                THEN "positive" ELSE "negative"]],
     most_positive |-> IF avg_sentiment = <<>> THEN None ELSE <<avg_sentiment[1]>>,
     average_sentiment |-> AverageSentiment(st)]

\* df.apply(..., axis=1) on a frame without rows: depending on the pandas at hand
\* it gives an empty column, or a frame that df['Sentiment'] = ... refuses.
SentimentOnEmpty == {SentimentResult(<<>>, {}, <<>>), Raised("ValueError")}

\* What analyze_sentiment(limit) can return on the store st.
SentimentOutcomes(st, limit) ==
    IF st = <<>> THEN SentimentOnEmpty
    ELSE UNION {{SentimentResult(st, RowsOfTop(st, Head_(counts, limit)), avg_sentiment) :
                    avg_sentiment \in AvgSentiment(st, RowsOfTop(st, Head_(counts, limit)))} :
                   counts \in ValueCounts(st, Rows(st))}

\* analyze_sentiment(limit)
AnalyzeSentiment ==
    /\ metric = ""
    /\ \E limit \in Limits :
        /\ result' \in SentimentOutcomes(store, limit)
        /\ metric' = "sentiment"
        /\ arg' = limit
        /\ sorted_df' = <<>>
        /\ UNCHANGED <<store, user_name, parserVars, detectVars, serverVars, statsVars>>

----------------------------------------------------------------------------
(* ChatAnalyzer.compare_user_to_group *)

\* A lookup among the raw names: the variant C16 tells from Found.
FoundByAuthor(st, clean_user) == \E r \in Rows(st) : st[r].Author = clean_user

\* clean_user in self.df['CleanAuthor'].values
Found(st, clean_user) == \E r \in Rows(st) : st[r].CleanAuthor = clean_user

\* self.df['Author'].nunique()
NumAuthors(st) == Cardinality({st[r].Author : r \in Rows(st)})

RECURSIVE SumLength(_, _)
\* The sum of msg_length over the rows R.
SumLength(st, R) ==
    IF R = {} THEN 0
    ELSE st[CHOOSE r \in R : TRUE].msg_length + SumLength(st, R \ {CHOOSE r \in R : TRUE})

RECURSIVE SumPolarity(_, _)
\* The sum of get_sentiment(r['Message']) over the rows R, in hundredths.
SumPolarity(st, R) ==
    IF R = {} THEN 0
    ELSE get_sentiment(st[CHOOSE r \in R : TRUE].Message)
         + SumPolarity(st, R \ {CHOOSE r \in R : TRUE})

RECURSIVE SumEmojis(_, _)
\* The sum of len(extract_emojis(x)) over the messages of the rows R.
SumEmojis(st, R) ==
    IF R = {} THEN 0
    ELSE EmojiCount(st[CHOOSE r \in R : TRUE].Message)
         + SumEmojis(st, R \ {CHOOSE r \in R : TRUE})

\* user_response, group_response: 0 without replies; otherwise the means, and
\* the mean of no rows is NaN, which "or 0" leaves as it is.
UserResponse(sd, clean_user) ==
    IF Replies(sd) = {} THEN [kind |-> "number", tenths |-> 0]
    ELSE OverallMean(sd, Group(sd, Replies(sd), clean_user))

GroupResponse(sd) ==
    IF Replies(sd) = {} THEN [kind |-> "number", tenths |-> 0]
    ELSE OverallMean(sd, Replies(sd))

\* The dictionary compare_user_to_group returns for a name it found; sd is
\* df_sorted and U the rows of user_df. Averages are in tenths.
CompareResult(st, sd, clean_user, U) ==
    [user_name |-> clean_user,
     messages |-> [user |-> Cardinality(U),
                   group_avg |-> RoundTenths(Len(st), NumAuthors(st))],
     avg_message_length |-> [user |-> RoundTenths(SumLength(st, U), Cardinality(U)),
                             group_avg |-> RoundTenths(SumLength(st, Rows(st)), Len(st))],
     response_time |-> [user |-> UserResponse(sd, clean_user),
                        group_avg |-> GroupResponse(sd)],
     positivity |-> [user |-> RoundTenthsSigned(SumPolarity(st, U), Cardinality(U)),
                     group_avg |-> RoundTenthsSigned(SumPolarity(st, Rows(st)), Len(st))],
     emojis |-> [user |-> SumEmojis(st, U),
                 group_avg |-> RoundTenths(SumEmojis(st, Rows(st)), NumAuthors(st))]]

\* What compare_user_to_group(user_name) returns with df_sorted = sd: None for a
\* name it does not find.
CompareOutcome(st, sd, clean_user) ==
    IF ~Found(st, clean_user) THEN None
    ELSE CompareResult(st, sd, clean_user, Group(st, Rows(st), clean_user))

\* The names a client asks about.
UserNames == {"A", "B.", "Z"}

\* compare_user_to_group(user_name)
CompareUserToGroup ==
    /\ metric = ""
    /\ \E name \in UserNames : \E sd \in SortValues(store) :
        /\ result' = CompareOutcome(store, sd, clean_name(name))
        /\ metric' = "compare"
        /\ arg' = 0
        /\ user_name' = name
        /\ sorted_df' = IF Found(store, clean_name(name)) THEN sd ELSE <<>>
        /\ UNCHANGED <<store, parserVars, detectVars, serverVars, statsVars>>

----------------------------------------------------------------------------
(* ChatAnalyzer.get_summary and ChatAnalyzer.get_leaderboard *)

\* The raw names of a store.
Authors(st) == {st[r].Author : r \in Rows(st)}

\* df['Author'].value_counts(): the raw names by descending count; the order of
\* names with equal counts is the sort's to choose.
AuthorCounts(st) ==
    {f \in Arrangements(Authors(st), Cardinality(Authors(st))) :
        \A i \in DOMAIN f : \A j \in DOMAIN f :
            i < j => CountWhere(st, "Author", f[i]) >= CountWhere(st, "Author", f[j])}

\* The values of a column that no other value outnumbers: value_counts().idxmax()
\* is the one of them that value_counts puts first.
MostCommon(st, column) ==
    {st[r][column] : r \in {q \in Rows(st) :
        \A o \in Rows(st) : CountWhere(st, column, st[o][column])
                                <= CountWhere(st, column, st[q][column])}}

\* df['DateTime'].min(), df['DateTime'].max()
MinDateTime(st) == CHOOSE t \in {st[r].DateTime : r \in Rows(st)} :
                       \A r \in Rows(st) : t <= st[r].DateTime
MaxDateTime(st) == CHOOSE t \in {st[r].DateTime : r \in Rows(st)} :
                       \A r \in Rows(st) : t >= st[r].DateTime

MINUTES_PER_DAY == 1440
DAYS_PER_YEAR == 365

\* A span that counts the started day as well: the variant C23 tells from Days.
DaysStarted(st) == (MaxDateTime(st) - MinDateTime(st)) \div MINUTES_PER_DAY + 1


\* (end_date - start_date).days or 1
Days(st) ==
    IF (MaxDateTime(st) - MinDateTime(st)) \div MINUTES_PER_DAY = 0 THEN 1
    ELSE (MaxDateTime(st) - MinDateTime(st)) \div MINUTES_PER_DAY

\* "top_contributor": the raw name with the most messages, shown normalized
TopContributor(st, top_author) ==
    [name |-> clean_name(top_author),
     messages |-> CountWhere(st, "Author", top_author),
     percentage |-> RoundTenths(100 * CountWhere(st, "Author", top_author), Len(st))]

\* The dictionary get_summary returns on a store with rows.
SummaryResult(st, top_author, peak_hour, busiest_day) ==
    [start_date |-> MinDateTime(st),
     end_date |-> MaxDateTime(st),
     total_messages |-> Len(st),
     total_days |-> Days(st),
     messages_per_day |-> RoundTenths(Len(st), Days(st)),
     unique_participants |-> NumAuthors(st),
     top_contributor |-> TopContributor(st, top_author),
     peak_hour |-> peak_hour,
     busiest_day |-> busiest_day,
     key_insights |-> <<TopContributor(st, top_author), peak_hour, busiest_day,
                        [days |-> Days(st),
                         years |-> RoundTenths(Days(st), DAYS_PER_YEAR)]>>]

\* What get_summary() can return: on a store without rows
\* df['Author'].value_counts().index[0] raises IndexError.
SummaryOutcomes(st) ==
    IF st = <<>> THEN {Raised("IndexError")}
    ELSE {SummaryResult(st, counts[1], peak_hour, busiest_day) :
             counts \in AuthorCounts(st),
             peak_hour \in MostCommon(st, "Hour"),
             busiest_day \in MostCommon(st, "Day")}

\* get_summary()
GetSummary ==
    /\ metric = ""
    /\ result' \in SummaryOutcomes(store)
    /\ metric' = "summary"
    /\ arg' = 0
    /\ sorted_df' = <<>>
    /\ UNCHANGED <<store, user_name, parserVars, detectVars, serverVars, statsVars>>

\* The dictionary get_leaderboard returns; top is the raw names it reports.
LeaderboardResult(st, top) ==
    [data |-> [k \in DOMAIN top |->
                  [rank |-> k,
                   name |-> clean_name(top[k]),
                   messages |-> CountWhere(st, "Author", top[k]),
                   percentage |-> RoundTenths(100 * CountWhere(st, "Author", top[k]),
                                              Len(st))]]]

\* What get_leaderboard(limit) can return.
LeaderboardOutcomes(st, limit) ==
    {LeaderboardResult(st, Head_(counts, limit)) : counts \in AuthorCounts(st)}

\* get_leaderboard(limit)
GetLeaderboard ==
    /\ metric = ""
    /\ \E limit \in Limits :
        /\ result' \in LeaderboardOutcomes(store, limit)
        /\ metric' = "leaderboard"
        /\ arg' = limit
        /\ sorted_df' = <<>>
        /\ UNCHANGED <<store, user_name, parserVars, detectVars, serverVars, statsVars>>

----------------------------------------------------------------------------
(* ChatAnalyzer.analyze_message_length *)

\* round(num / den, 0) for num >= 0 and den > 0: an exact half goes to the even
\* integer.
RoundUnits(num, den) ==
    IF 2 * (num % den) > den THEN num \div den + 1
    ELSE IF 2 * (num % den) < den THEN num \div den
    ELSE IF (num \div den) % 2 = 0 THEN num \div den
    ELSE num \div den + 1

\* mean(a) >= mean(b) for the msg_length of the groups of two names
LengthGeq(st, R, a, b) ==
    SumLength(st, Group(st, R, a)) * Cardinality(Group(st, R, b))
        >= SumLength(st, Group(st, R, b)) * Cardinality(Group(st, R, a))

\* groupby('CleanAuthor')['msg_length'].mean().sort_values(ascending=False)
AvgLengths(st, R) ==
    {f \in Arrangements(NamesOf(st, R), Cardinality(NamesOf(st, R))) :
        \A i \in DOMAIN f : \A j \in DOMAIN f : i < j => LengthGeq(st, R, f[i], f[j])}

\* self.df['msg_length'].idxmax(): the first row with the largest msg_length
LongestIdx(st) ==
    CHOOSE r \in Rows(st) :
        /\ \A q \in Rows(st) : st[q].msg_length <= st[r].msg_length
        /\ \A q \in Rows(st) : st[q].msg_length = st[r].msg_length => r <= q

PREVIEW_LENGTH == 200

\* longest_msg['Message'][:200] + "..." if len(...) > 200 else longest_msg['Message']
Preview(message) ==
    IF Len(message) > PREVIEW_LENGTH THEN SubSeq(message, 1, PREVIEW_LENGTH) \o "..."
    ELSE message

\* The dictionary analyze_message_length returns on a store with rows; R is the
\* rows of the top authors and avg_lengths their names by descending mean.
MessageLengthResult(st, R, avg_lengths) ==
    [data |-> [k \in DOMAIN avg_lengths |->
                  [name |-> avg_lengths[k],
                   avg_length |-> RoundTenths(SumLength(st, Group(st, R, avg_lengths[k])),
                                              Cardinality(Group(st, R, avg_lengths[k])))]],
     longest_message |-> [author |-> clean_name(st[LongestIdx(st)].Author),
                          length |-> st[LongestIdx(st)].msg_length,
                          preview |-> Preview(st[LongestIdx(st)].Message)],
     insight |-> IF avg_lengths = <<>> THEN None
                 ELSE <<avg_lengths[1],
                        RoundUnits(SumLength(st, Group(st, R, avg_lengths[1])),
                                   Cardinality(Group(st, R, avg_lengths[1])))>>]

\* What analyze_message_length(limit) can return: on a store without rows
\* idxmax() raises ValueError.
MessageLengthOutcomes(st, limit) ==
    IF st = <<>> THEN {Raised("ValueError")}
    ELSE UNION {{MessageLengthResult(st, RowsOfTop(st, Head_(counts, limit)), avg_lengths) :
                    avg_lengths \in AvgLengths(st, RowsOfTop(st, Head_(counts, limit)))} :
                   counts \in ValueCounts(st, Rows(st))}

\* analyze_message_length(limit)
AnalyzeMessageLength ==
    /\ metric = ""
    /\ \E limit \in Limits :
        /\ result' \in MessageLengthOutcomes(store, limit)
        /\ metric' = "message_length"
        /\ arg' = limit
        /\ sorted_df' = <<>>
        /\ UNCHANGED <<store, user_name, parserVars, detectVars, serverVars, statsVars>>

----------------------------------------------------------------------------
(* ChatAnalyzer.calculate_achievements *)

\* The characters of names in the order of their code points.
CodePoints == " -.0123456789ABCDEFGHIJKLMNOPQRSTUVWXYZ_abcdefghijklmnopqrstuvwxyz"

\* ord(c), as a position in CodePoints
Ord(c) == CHOOSE k \in 1..Len(CodePoints) : Ch(CodePoints, k) = c

RECURSIVE StrLess(_, _, _)
\* a < b for two strings, compared from position i on
StrLess(a, b, i) ==
    IF i > Len(b) THEN FALSE
    ELSE IF i > Len(a) THEN TRUE
    ELSE IF Ch(a, i) = Ch(b, i) THEN StrLess(a, b, i + 1)
    ELSE Ord(Ch(a, i)) < Ord(Ch(b, i))

\* The first key of a groupby (keys ascending) among the names of the set.
FirstKey(names) == CHOOSE a \in names : \A b \in names : a = b \/ StrLess(a, b, 1)

RECURSIVE extract_emojis(_, _)
\* [c for c in str(text) if c in emoji.EMOJI_DATA], from position i on
extract_emojis(text, i) ==
    IF i > Len(text) THEN <<>>
    ELSE IF Ch(text, i) \in EMOJI_DATA THEN <<Ch(text, i)>> \o extract_emojis(text, i + 1)
    ELSE extract_emojis(text, i + 1)

\* Columns that also overwrite msg_length with the length plus one: the variant
\* C18 tells from EmojiColumns.
EmojiColumnsOverLength(st) ==
    [r \in DOMAIN st |->
        [Index |-> st[r].Index, Author |-> st[r].Author, CleanAuthor |-> st[r].CleanAuthor,
         DateTime |-> st[r].DateTime, Message |-> st[r].Message, Hour |-> st[r].Hour,
         Day |-> st[r].Day, msg_length |-> Len(st[r].Message) + 1,
         emojis |-> extract_emojis(st[r].Message, 1),
         emoji_count |-> EmojiCount(st[r].Message),
         emoji_ratio |-> <<EmojiCount(st[r].Message), Len(st[r].Message) + 1>>]]

\* The store with the columns calculate_achievements sets on self.df; the ratio
\* emoji_count / (len + 1) is kept as <<numerator, denominator>>.
EmojiColumns(st) ==
    [r \in DOMAIN st |->
        [Index |-> st[r].Index, Author |-> st[r].Author, CleanAuthor |-> st[r].CleanAuthor,
         DateTime |-> st[r].DateTime, Message |-> st[r].Message, Hour |-> st[r].Hour,
         Day |-> st[r].Day, msg_length |-> st[r].msg_length,
         emojis |-> extract_emojis(st[r].Message, 1),
         emoji_count |-> EmojiCount(st[r].Message),
         emoji_ratio |-> <<EmojiCount(st[r].Message), Len(st[r].Message) + 1>>]]

\* df[df['Hour'].between(lo, hi)]
HourBetween(st, lo, hi) == {r \in Rows(st) : lo <= st[r].Hour /\ st[r].Hour <= hi}

\* rows['CleanAuthor'].value_counts().index[0] if there are rows: the names it
\* can be, or None
TopOf(st, R) ==
    IF R = {} THEN {None} ELSE {<<counts[1]>> : counts \in ValueCounts(st, R)}

RECURSIVE SumRatio(_, _)
\* The sum of emoji_ratio over the rows R, as <<numerator, denominator>>.
SumRatio(st, R) ==
    IF R = {} THEN <<0, 1>>
    ELSE <<EmojiCount(st[CHOOSE r \in R : TRUE].Message)
               * SumRatio(st, R \ {CHOOSE r \in R : TRUE})[2]
           + SumRatio(st, R \ {CHOOSE r \in R : TRUE})[1]
               * (Len(st[CHOOSE r \in R : TRUE].Message) + 1),
           (Len(st[CHOOSE r \in R : TRUE].Message) + 1)
               * SumRatio(st, R \ {CHOOSE r \in R : TRUE})[2]>>

\* mean(a) >= mean(b) for the emoji_ratio of the groups of two names
RatioGeq(st, R, a, b) ==
    SumRatio(st, Group(st, R, a))[1] * SumRatio(st, Group(st, R, b))[2]
            * Cardinality(Group(st, R, b))
        >= SumRatio(st, Group(st, R, b))[1] * SumRatio(st, Group(st, R, a))[2]
            * Cardinality(Group(st, R, a))

\* emoji_ratios.idxmax(): the first key with the largest mean, if there is a key
Comedian(st, R) ==
    IF R = {} THEN None
    ELSE <<FirstKey({a \in NamesOf(st, R) : \A b \in NamesOf(st, R) : RatioGeq(st, R, a, b)})>>

\* avg_response.idxmin(): the first key with the least mean; None without
\* replies of the top authors
Lightning(sd, R) ==
    IF R = {} THEN None
    ELSE <<FirstKey({a \in NamesOf(sd, R) : \A b \in NamesOf(sd, R) : MeanLeq(sd, R, a, b)})>>

\* avg_length.idxmax(): the first key with the largest mean, if there is a key
Professor(st, R) ==
    IF R = {} THEN None
    ELSE <<FirstKey({a \in NamesOf(st, R) : \A b \in NamesOf(st, R) : LengthGeq(st, R, a, b)})>>

\* The position of the name among the entries, 0 if it has none.
EntryOf(achievements, name) ==
    IF \E k \in DOMAIN achievements : achievements[k].name = name
    THEN CHOOSE k \in DOMAIN achievements : achievements[k].name = name
    ELSE 0

\* achievements[name] = achievements.get(name, []) + [badge], when there is a name
Award(achievements, who, badge) ==
    IF who = None THEN achievements
    ELSE IF EntryOf(achievements, who[1]) = 0
    THEN Append(achievements, [name |-> who[1], badges |-> <<badge>>])
    ELSE [achievements EXCEPT ![EntryOf(achievements, who[1])].badges = Append(@, badge)]

ACHIEVEMENTS_HEAD == 10

\* The dictionary calculate_achievements returns on a store with rows; the
\* f-string of the insight reads lightning, which has no value when there are
\* replies but none of a top author.
AchievementsResult(st, sd, top_authors, night_owl, early_bird, chatterbox) ==
    IF Replies(sd) # {} /\ InTop(sd, Replies(sd), top_authors) = {}
    THEN Raised("UnboundLocalError")
    ELSE [achievements |->
             Award(Award(Award(Award(Award(Award(<<>>,
                 night_owl, "Night Owl"),
                 early_bird, "Early Bird"),
                 Comedian(st, RowsOfTop(st, top_authors)), "Comedian"),
                 Lightning(sd, InTop(sd, Replies(sd), top_authors)), "Lightning"),
                 <<chatterbox>>, "Chatterbox"),
                 Professor(st, RowsOfTop(st, top_authors)), "Professor"),
          insight |-> [chatterbox |-> chatterbox,
                       lightning |-> IF Replies(sd) = {} THEN <<"everyone">>
                                     ELSE Lightning(sd, InTop(sd, Replies(sd), top_authors))]]

\* What calculate_achievements() can return with df_sorted = sd: on a store
\* without rows df['CleanAuthor'].value_counts().index[0] raises IndexError.
AchievementsWith(st, sd) ==
    IF st = <<>> THEN {Raised("IndexError")}
    ELSE {AchievementsResult(st, sd, Head_(counts, ACHIEVEMENTS_HEAD),
                             night_owl, early_bird, counts[1]) :
             counts \in ValueCounts(st, Rows(st)),
             night_owl \in TopOf(st, HourBetween(st, 0, 5)),
             early_bird \in TopOf(st, HourBetween(st, 5, 7))}

\* What calculate_achievements() can return.
AchievementsOutcomes(st) == UNION {AchievementsWith(st, sd) : sd \in SortValues(st)}

\* calculate_achievements(): df is self.df itself, so the three columns it sets
\* are set on the store.
CalculateAchievements ==
    /\ metric = ""
    /\ \E sd \in SortValues(EmojiColumns(store)) :
        /\ store' = EmojiColumns(store)
        /\ result' \in AchievementsWith(EmojiColumns(store), sd)
        /\ metric' = "achievements"
        /\ arg' = 0
        /\ sorted_df' = sd
        /\ UNCHANGED <<user_name, parserVars, detectVars, serverVars, statsVars>>

----------------------------------------------------------------------------
(* ChatAnalyzer.analyze_links and ChatAnalyzer.analyze_emojis *)

\* bool(re.search(r'http|www\.', str(message), re.IGNORECASE))
has_link(message) ==
    Contains(Lower(message, 1), "http") \/ Contains(Lower(message, 1), "www.")

\* The number of rows of R whose message has a link: the sum of has_link.
LinksOf(st, R) == Cardinality({r \in R : has_link(st[r].Message)})

\* groupby('CleanAuthor')['has_link'].sum().sort_values(ascending=False)
LinkSharers(st, R) ==
    {f \in Arrangements(NamesOf(st, R), Cardinality(NamesOf(st, R))) :
        \A i \in DOMAIN f : \A j \in DOMAIN f :
            i < j => LinksOf(st, Group(st, R, f[i])) >= LinksOf(st, Group(st, R, f[j]))}

\* The dictionary analyze_links returns; insight holds the sharer and the count
\* the sentence names, None for "No links shared in this chat!".
LinksResult(st, R, link_sharers) ==
    [data |-> [k \in DOMAIN link_sharers |->
                  [name |-> link_sharers[k],
                   links |-> LinksOf(st, Group(st, R, link_sharers[k]))]],
     total_links |-> LinksOf(st, Rows(st)),
     top_sharer |-> IF link_sharers # <<>> /\ LinksOf(st, Group(st, R, link_sharers[1])) > 0
                    THEN <<link_sharers[1]>> ELSE None,
     insight |-> IF link_sharers # <<>> /\ LinksOf(st, Group(st, R, link_sharers[1])) > 0
                 THEN <<link_sharers[1], LinksOf(st, Group(st, R, link_sharers[1]))>>
                 ELSE None]

\* What analyze_links(limit) can return.
LinksOutcomes(st, limit) ==
    UNION {{LinksResult(st, RowsOfTop(st, Head_(counts, limit)), link_sharers) :
               link_sharers \in LinkSharers(st, RowsOfTop(st, Head_(counts, limit)))} :
              counts \in ValueCounts(st, Rows(st))}

\* analyze_links(limit): has_link is set on a copy of self.df
AnalyzeLinks ==
    /\ metric = ""
    /\ \E limit \in Limits :
        /\ result' \in LinksOutcomes(store, limit)
        /\ metric' = "links"
        /\ arg' = limit
        /\ sorted_df' = <<>>
        /\ UNCHANGED <<store, user_name, parserVars, detectVars, serverVars, statsVars>>

\* groupby('CleanAuthor')['emoji_count'].sum().sort_values(ascending=False)
EmojiUsers(st, R) ==
    {f \in Arrangements(NamesOf(st, R), Cardinality(NamesOf(st, R))) :
        \A i \in DOMAIN f : \A j \in DOMAIN f :
            i < j => SumEmojis(st, Group(st, R, f[i])) >= SumEmojis(st, Group(st, R, f[j]))}

SIGNATURE_HEAD == 5

\* Counter(emojis).most_common(n) as [emoji, count] entries; EMOJI_DATA holds one
\* emoji, so the counter has one key at most.
MostCommonEmojis(count, n) ==
    IF count = 0 \/ n = 0 THEN <<>> ELSE <<[emoji |-> "~", count |-> count]>>

RECURSIVE AuthorSummaries(_, _, _)
\* for author in top_authors: the summary of each author who used an emoji,
\* from position k on
AuthorSummaries(st, top_authors, k) ==
    IF k > Len(top_authors) THEN <<>>
    ELSE IF SumEmojis(st, Group(st, Rows(st), top_authors[k])) = 0
    THEN AuthorSummaries(st, top_authors, k + 1)
    ELSE <<[name |-> top_authors[k],
            top_emojis |-> MostCommonEmojis(
                               SumEmojis(st, Group(st, Rows(st), top_authors[k])),
                               SIGNATURE_HEAD),
            primary_emoji |-> "~"]>>
         \o AuthorSummaries(st, top_authors, k + 1)

\* The dictionary analyze_emojis returns.
EmojisResult(st, top_authors, emoji_users, limit) ==
    [top_users |-> [k \in DOMAIN emoji_users |->
                       [name |-> emoji_users[k],
                        emoji_count |-> SumEmojis(st, Group(st, Rows(st), emoji_users[k]))]],
     top_emojis |-> MostCommonEmojis(SumEmojis(st, Rows(st)), limit),
     author_summaries |-> AuthorSummaries(st, top_authors, 1),
     total_emojis |-> SumEmojis(st, Rows(st)),
     insight |-> IF emoji_users = <<>> THEN None
                 ELSE <<emoji_users[1], SumEmojis(st, Group(st, Rows(st), emoji_users[1]))>>]

\* What analyze_emojis(limit) can return.
EmojisOutcomes(st, limit) ==
    UNION {{EmojisResult(st, Head_(counts, limit), emoji_users, limit) :
               emoji_users \in EmojiUsers(st, RowsOfTop(st, Head_(counts, limit)))} :
              counts \in ValueCounts(st, Rows(st))}

\* analyze_emojis(limit): emojis and emoji_count are set on a copy of self.df
AnalyzeEmojis ==
    /\ metric = ""
    /\ \E limit \in Limits :
        /\ result' \in EmojisOutcomes(store, limit)
        /\ metric' = "emojis"
        /\ arg' = limit
        /\ sorted_df' = <<>>
        /\ UNCHANGED <<store, user_name, parserVars, detectVars, serverVars, statsVars>>

\* The route of the response time: analyzer.analyze_response_time(limit=limit)
get_response_time == metric = "" /\ (ResponseTimeNoReplies \/ ResponseTime)

\* The route of the conversation roles: analyzer.analyze_conversation_roles()
get_conversation_roles == metric = "" /\ ConversationRoles

\* The route of the monologues: analyzer.detect_monologues()
get_monologues == metric = "" /\ Monologues

\* A route returns what the metric gave it: the call is over, its locals are
\* gone, and the analyzer stays in the session for the next request.
Return ==
    /\ metric # ""
    /\ metric' = "" /\ arg' = 0 /\ user_name' = "" /\ result' = <<>> /\ sorted_df' = <<>>
    /\ UNCHANGED <<store, parserVars, detectVars, serverVars, statsVars>>

MetricsNext ==
    \/ AnalyzeVolume
    \/ AnalyzeHourlyActivity
    \/ AnalyzeWeeklyActivity
    \/ AnalyzeSentiment
    \/ CompareUserToGroup
    \/ GetSummary
    \/ GetLeaderboard
    \/ AnalyzeMessageLength
    \/ CalculateAchievements
    \/ AnalyzeLinks
    \/ AnalyzeEmojis
    \/ get_response_time
    \/ get_conversation_roles
    \/ get_monologues
    \/ Return

MetricsSpec == MetricsInit /\ [][MetricsNext]_vars

----------------------------------------------------------------------------
(* Properties of volume, hourly and weekly activity *)

\* The number of messages of the store under a clean name.
MessagesOf(name) == Cardinality({r \in 1..Len(store) : store[r].CleanAuthor = name})

\* The clean names of the store.
StoreNames == {store[r].CleanAuthor : r \in 1..Len(store)}

\* C12: analyze_volume(limit) reports at most limit names, the most frequent
\* ones, each with its message count, in descending order of count;
\* total_messages is the length of the whole store, and the percentage of the top
\* contributor is its count over that length, also when limit leaves names out.
C12_VolumeAgainstFullTotal ==
    metric = "volume" =>
        /\ Len(result.data) <= arg
        /\ Len(result.data) = arg \/ Len(result.data) = Cardinality(StoreNames)
        /\ \A k \in DOMAIN result.data :
              /\ result.data[k].name \in StoreNames
              /\ result.data[k].messages = MessagesOf(result.data[k].name)
              /\ \A j \in DOMAIN result.data :
                    /\ j # k => result.data[j].name # result.data[k].name
                    /\ k < j => result.data[k].messages >= result.data[j].messages
              /\ \A name \in StoreNames :
                    (\A j \in DOMAIN result.data : result.data[j].name # name)
                        => MessagesOf(name) <= result.data[k].messages
        /\ result.total_messages = Len(store)
        /\ store = <<>> => result.data = <<>> /\ result.top_contributor = None
        /\ store # <<>> =>
              /\ result.top_contributor = <<result.data[1].name>>
              /\ 2 * (result.pct[1] * Len(store) - 1000 * result.data[1].messages)
                    <= Len(store)
              /\ 2 * (1000 * result.data[1].messages - result.pct[1] * Len(store))
                    <= Len(store)

\* C12's case: two names with a message each and a limit of 1: one name is
\* reported, with 50.0% of a total of 2.
C12_Witness ==
    /\ metric = "volume" /\ arg = 1
    /\ Cardinality(StoreNames) = 2
    /\ Len(result.data) = 1
    /\ result.total_messages = 2
    /\ result.pct = <<500>>

RECURSIVE SumMessages(_, _)
\* The sum of the counts of the first k entries of a data list.
SumMessages(entries, k) ==
    IF k = 0 THEN 0 ELSE entries[k].messages + SumMessages(entries, k - 1)

\* The number of messages of the store in an hour of day.
MessagesInHour(h) ==
    Cardinality({r \in 1..Len(store) : (store[r].DateTime \div 60) % 24 = h})

\* The number of messages of the store on the d-th day of the week (Monday is 0).
MessagesOnDay(d) ==
    Cardinality({r \in 1..Len(store) : (store[r].DateTime \div 1440) % 7 = d})

WeekDays == <<"Monday", "Tuesday", "Wednesday", "Thursday", "Friday", "Saturday", "Sunday">>

\* C13: analyze_hourly_activity returns 24 entries, for the hours 0..23 in this
\* order, and analyze_weekly_activity 7, for Monday..Sunday in this order; an
\* entry holds the number of messages of its hour or day, 0 if none; the counts
\* sum to the length of the store, and so do weekend plus weekday.
C13_AllBucketsPresent ==
    /\ metric = "hourly_activity" =>
          /\ Len(result.data) = 24
          /\ \A k \in 1..24 :
                /\ result.data[k].hour = k - 1
                /\ result.data[k].messages = MessagesInHour(k - 1)
          /\ SumMessages(result.data, Len(result.data)) = Len(store)
    /\ metric = "weekly_activity" =>
          /\ Len(result.data) = 7
          /\ \A k \in 1..7 :
                /\ result.data[k].day = WeekDays[k]
                /\ result.data[k].messages = MessagesOnDay(k - 1)
          /\ SumMessages(result.data, Len(result.data)) = Len(store)
          /\ result.weekend_vs_weekday.weekend = MessagesOnDay(5) + MessagesOnDay(6)
          /\ result.weekend_vs_weekday.weekend + result.weekend_vs_weekday.weekday
                = Len(store)

\* C13's case: the hours of a store with messages at 00:00 and 13:00 only have
\* been counted: the other hours are there, with 0.
C13_Witness ==
    /\ metric = "hourly_activity"
    /\ Len(store) = 2
    /\ Len(result.data) = 24
    /\ result.data[1].messages = 1
    /\ result.data[2].messages = 0
    /\ result.data[14].messages = 1

\* C14: the peak hour of analyze_hourly_activity has the largest count, and no
\* earlier hour has that count; the busiest day of analyze_weekly_activity has the
\* largest count, and no earlier day of the week from Monday has that count.
C14_FirstOfTheLargest ==
    /\ metric = "hourly_activity" =>
          /\ result.peak_hour \in 0..23
          /\ \A h \in 0..23 :
                /\ MessagesInHour(h) <= MessagesInHour(result.peak_hour)
                /\ h < result.peak_hour
                      => MessagesInHour(h) < MessagesInHour(result.peak_hour)
    /\ metric = "weekly_activity" =>
          \E d \in 0..6 :
             /\ result.busiest_day = WeekDays[d + 1]
             /\ \A e \in 0..6 :
                   /\ MessagesOnDay(e) <= MessagesOnDay(d)
                   /\ e < d => MessagesOnDay(e) < MessagesOnDay(d)

\* C14's case: one message at 00:00 and one at 13:00: the peak hour is 0.
C14_Witness ==
    /\ metric = "hourly_activity"
    /\ MessagesInHour(0) = 1
    /\ MessagesInHour(13) = 1
    /\ Len(store) = 2
    /\ result.peak_hour = 0

----------------------------------------------------------------------------
(* Properties of the sentiment *)

\* The rows of the store under a clean name that are no media placeholder.
TextRowsOf(name) ==
    {r \in 1..Len(store) :
        store[r].CleanAuthor = name /\ ~is_media_message(store[r].Message)}

RECURSIVE PolaritySum(_)
\* The sum of the polarity of the messages of the rows R, in hundredths.
PolaritySum(R) ==
    IF R = {} THEN 0
    ELSE get_sentiment(store[CHOOSE r \in R : TRUE].Message)
         + PolaritySum(R \ {CHOOSE r \in R : TRUE})

\* A result is the exception a metric raised.
IsRaised(res) == res # None /\ "raised" \in DOMAIN res

\* C20: the score analyze_sentiment reports for a name is the mean polarity of
\* the messages of that name that are no media placeholder (in percent, to one
\* decimal), whatever the number of its media placeholders.
C20_MeanOverTextMessages ==
    metric = "sentiment" /\ ~IsRaised(result) =>
        \A k \in DOMAIN result.data :
            TextRowsOf(result.data[k].name) # {} =>
                /\ 2 * (result.data[k].sentiment * Cardinality(TextRowsOf(result.data[k].name))
                        - 10 * PolaritySum(TextRowsOf(result.data[k].name)))
                      <= Cardinality(TextRowsOf(result.data[k].name))
                /\ 2 * (10 * PolaritySum(TextRowsOf(result.data[k].name))
                        - result.data[k].sentiment * Cardinality(TextRowsOf(result.data[k].name)))
                      <= Cardinality(TextRowsOf(result.data[k].name))

----------------------------------------------------------------------------
(* Properties of the comparison *)

\* The rows of the store whose raw name normalizes as the given name does.
SameNormalized(name) ==
    {r \in 1..Len(store) : clean_name(store[r].Author) = clean_name(name)}

\* C16: compare_user_to_group returns None exactly when no message of the store
\* has a name that normalizes to the normalized form of the given name;
\* otherwise it returns a bundle whose messages.user is the number of those
\* messages (so never a bundle of zero messages).
C16_NotFoundIffNoMessages ==
    metric = "compare" =>
        /\ result = None <=> SameNormalized(user_name) = {}
        /\ result # None =>
              /\ result.messages.user = Cardinality(SameNormalized(user_name))
              /\ result.messages.user > 0
              /\ result.user_name = clean_name(user_name)

\* A lookup of "B." finds the messages written as "B" and as "B.".
C16_Witness ==
    /\ metric = "compare" /\ user_name = "B." /\ result # None
    /\ result.messages.user = 2
    /\ \E r \in 1..Len(store) : store[r].Author = "B"
    /\ \E r \in 1..Len(store) : store[r].Author = "B."

\* A lookup of a name without messages is answered with None.
C16_Miss == metric = "compare" /\ user_name = "Z" /\ result = None /\ store # <<>>

----------------------------------------------------------------------------
(* Properties of the grouping by normalized name *)

\* The number of messages of the store under a normalized name.
MessagesUnder(name) == Cardinality({r \in 1..Len(store) : store[r].CleanAuthor = name})

\* C17: the leaderboard never reports one normalized name in two entries, and
\* the entries of the leaderboard and the top contributor of the summary carry
\* the number of messages of their normalized name.
C17_OneEntryPerNormalizedName ==
    /\ metric = "leaderboard" =>
          /\ \A i \in DOMAIN result.data : \A j \in DOMAIN result.data :
                i # j => result.data[i].name # result.data[j].name
          /\ \A k \in DOMAIN result.data :
                result.data[k].messages = MessagesUnder(result.data[k].name)
    /\ metric = "summary" /\ ~IsRaised(result) =>
          result.top_contributor.messages = MessagesUnder(result.top_contributor.name)

----------------------------------------------------------------------------
(* Properties of the metrics on degenerate stores *)

\* C19: get_summary, analyze_message_length and calculate_achievements never
\* raise, whatever the store: one without messages, with a single message or
\* with a single author included.
C19_NoMetricRaises ==
    metric \in {"summary", "message_length", "achievements"} => ~IsRaised(result)

----------------------------------------------------------------------------
(* Properties of the store under the metric calls *)

\* The rows of a store with the columns the constructor gave them.
Constructed(st) ==
    [r \in DOMAIN st |->
        [Index |-> st[r].Index, Author |-> st[r].Author, CleanAuthor |-> st[r].CleanAuthor,
         DateTime |-> st[r].DateTime, Message |-> st[r].Message, Hour |-> st[r].Hour,
         Day |-> st[r].Day, msg_length |-> st[r].msg_length]]

\* The result is one that analyze_response_time(limit) has on the store st.
ResponseTimeOn(st, limit) ==
    \E sd \in SortValues(st) :
        \/ Replies(sd) = {} /\ result = NoReplies
        \/ /\ Replies(sd) # {}
           /\ \E counts \in ValueCounts(st, Rows(st)) :
                 \E avg_time \in AvgTime(sd, InTop(sd, Replies(sd), Head_(counts, limit))) :
                    result = ResponseTimeResult(
                                 sd, InTop(sd, Replies(sd), Head_(counts, limit)), avg_time)

\* The result is one that analyze_conversation_roles() has on the store st.
RolesOn(st) ==
    \E sd \in SortValues(st) :
        \E starter_counts \in ValueCounts(sd, Starters(sd)) :
            \E ender_counts \in ValueCounts(sd, Enders(sd)) :
                result = RolesResult(sd, Head_(starter_counts, ROLES_HEAD),
                                     Head_(ender_counts, ROLES_HEAD))

\* The result is one that detect_monologues(min_consecutive) has on the store st.
MonologuesOn(st, min_consecutive) ==
    \E sd \in SortValues(st) :
        result = MonologuesResult(
                     Head_(SortedTotals(Totals(
                               RunLoop(sd, 1, <<>>, None, 0, min_consecutive), 1, <<>>)),
                           MONOLOGUES_HEAD))

\* The result of the last metric is one that the metric has on the store st.
ResultOn(st) ==
    /\ metric = "volume" => result \in VolumeOutcomes(st, arg)
    /\ metric = "hourly_activity" => result = HourlyResult(HourCounts(st))
    /\ metric = "weekly_activity" => result = WeeklyResult(DayCounts(st))
    /\ metric = "sentiment" => result \in SentimentOutcomes(st, arg)
    /\ metric = "compare" =>
          \E sd \in SortValues(st) : result = CompareOutcome(st, sd, clean_name(user_name))
    /\ metric = "summary" => result \in SummaryOutcomes(st)
    /\ metric = "leaderboard" => result \in LeaderboardOutcomes(st, arg)
    /\ metric = "message_length" => result \in MessageLengthOutcomes(st, arg)
    /\ metric = "achievements" => result \in AchievementsOutcomes(st)
    /\ metric = "links" => result \in LinksOutcomes(st, arg)
    /\ metric = "emojis" => result \in EmojisOutcomes(st, arg)
    /\ metric = "response_time" => ResponseTimeOn(st, arg)
    /\ metric = "conversation_roles" => RolesOn(st)
    /\ metric = "monologues" => MonologuesOn(st, arg)

\* C18: no metric call changes the rows of the store, their order or the value
\* of a column the constructor set, and what a metric returns after any calls
\* is what it returns on the store as the constructor left it.
C18_StoreAsConstructed ==
    /\ [](ResultOn(Constructed(store)))
    /\ [][Constructed(store') = Constructed(store)]_vars

\* A metric answers after calculate_achievements has set its columns on the
\* rows of the store.
C18_Witness ==
    /\ store # <<>> /\ "emoji_ratio" \in DOMAIN store[1]
    /\ metric = "emojis" /\ result.total_emojis > 0

----------------------------------------------------------------------------
(* analyze_conversation_roles on its own, on stores with silences *)

MaxSilences == 3

\* Messages as <<raw author, minute>>: gaps of 1, 180 (exactly 3 hours) and 181
\* minutes and more; "B" and "B." have one clean name.
SilencePool == {<<"A", 0>>, <<"B", 180>>, <<"A", 181>>, <<"B.", 361>>, <<"B", 362>>}

RECURSIVE SilenceStores(_)
\* The stores of n messages of the pool, in transcript order.
SilenceStores(n) ==
    IF n = 0 THEN {<<>>}
    ELSE {Append(st, [Index |-> n - 1, Author |-> m[1], CleanAuthor |-> clean_name(m[1]),
                      DateTime |-> m[2]]) :
             st \in SilenceStores(n - 1), m \in SilencePool}

RECURSIVE SilenceAuthors(_)
\* k messages of ManyAuthors[k] for k = 2..11, then one of the first author.
SilenceAuthors(k) ==
    IF k > Len(ManyAuthors) THEN <<ManyAuthors[1]>>
    ELSE Rep(ManyAuthors[k], k) \o SilenceAuthors(k + 1)

\* A store of eleven authors whose messages are 200 minutes apart: the first
\* author opens and closes it, author k of the others has k messages.
ManySilences ==
    [r \in 1..(Len(SilenceAuthors(2)) + 1) |->
        [Index |-> r - 1,
         Author |-> IF r = 1 THEN ManyAuthors[1] ELSE SilenceAuthors(2)[r - 1],
         CleanAuthor |-> clean_name(IF r = 1 THEN ManyAuthors[1] ELSE SilenceAuthors(2)[r - 1]),
         DateTime |-> 200 * r]]

RolesInit ==
    /\ ParserIdle /\ DetectIdle /\ ServerIdle /\ StatsIdle
    /\ store \in UNION {SilenceStores(n) : n \in 0..MaxSilences} \cup {ManySilences}
    /\ sorted_df = <<>> /\ metric = "" /\ arg = 0 /\ user_name = ""
    /\ result = <<>>

RolesSpec == RolesInit /\ [][ConversationRoles]_vars

\* Row r of the sorted frame comes more than 3 hours after the row before it.
AfterSilence(r) ==
    r > 1 /\ sorted_df[r].DateTime - sorted_df[r - 1].DateTime > 3 * 60

\* Row r of the sorted frame comes more than 3 hours before the row after it.
BeforeSilence(r) ==
    r < Len(sorted_df) /\ sorted_df[r + 1].DateTime - sorted_df[r].DateTime > 3 * 60

\* The number of rows of a clean name that come after a silence, before one.
StartsOf(name) ==
    Cardinality({r \in 1..Len(sorted_df) : AfterSilence(r) /\ sorted_df[r].CleanAuthor = name})
EndsOf(name) ==
    Cardinality({r \in 1..Len(sorted_df) : BeforeSilence(r) /\ sorted_df[r].CleanAuthor = name})

\* The clean names of the sorted frame.
SortedNames == {sorted_df[r].CleanAuthor : r \in 1..Len(sorted_df)}

\* The smaller of two numbers.
Least(a, b) == IF a < b THEN a ELSE b

\* C21: on the sorted frame the starters are the messages more than 3 hours
\* after their predecessor and the enders those more than 3 hours before
\* their successor (so never the first, never the last); the two lists give the
\* count of each name, hold the 10 names with the largest counts at most and
\* are in descending order of count.
C21_StartersAndEndersBySilence ==
    metric = "conversation_roles" =>
        /\ \A r \in 1..(Len(sorted_df) - 1) : sorted_df[r].DateTime <= sorted_df[r + 1].DateTime
        /\ Len(result.starters) = Least(10, Cardinality({n \in SortedNames : StartsOf(n) > 0}))
        /\ Len(result.enders) = Least(10, Cardinality({n \in SortedNames : EndsOf(n) > 0}))
        /\ \A k \in DOMAIN result.starters :
              /\ result.starters[k].count = StartsOf(result.starters[k].name)
              /\ \A j \in DOMAIN result.starters :
                    j # k => result.starters[j].name # result.starters[k].name
              /\ \A n \in SortedNames :
                    StartsOf(n) > result.starters[k].count =>
                        \E j \in 1..(k - 1) : result.starters[j].name = n
        /\ \A k \in DOMAIN result.enders :
              /\ result.enders[k].count = EndsOf(result.enders[k].name)
              /\ \A j \in DOMAIN result.enders :
                    j # k => result.enders[j].name # result.enders[k].name
              /\ \A n \in SortedNames :
                    EndsOf(n) > result.enders[k].count =>
                        \E j \in 1..(k - 1) : result.enders[j].name = n

\* Messages at 0:00, 3:00 and 6:01: the gap of exactly 3 hours makes no starter
\* and no ender, the gap of 3 hours and a minute makes one of each.
C21_Witness ==
    /\ metric = "conversation_roles"
    /\ Len(sorted_df) = 3
    /\ sorted_df[1].DateTime = 0 /\ sorted_df[2].DateTime = 180 /\ sorted_df[3].DateTime = 361
    /\ result.starters = <<[name |-> "B", count |-> 1]>>
    /\ result.enders = <<[name |-> "B", count |-> 1]>>

\* Eleven authors have started after a silence: ten are reported.
ManySilencesReported ==
    /\ metric = "conversation_roles"
    /\ store = ManySilences
    /\ Len(result.starters) = 10 /\ Len(result.enders) = 10
    /\ result.starters[1] = [name |-> "K", count |-> 11]

RECURSIVE SumCounts(_, _)
\* The sum of the counts of the first k entries of a list.
SumCounts(entries, k) == IF k = 0 THEN 0 ELSE entries[k].count + SumCounts(entries, k - 1)

\* C28: there are as many messages after a silence as before one, and with 10
\* clean names at most the reported starter counts and the reported ender counts
\* both sum to that number.
C28_AsManyStartersAsEnders ==
    metric = "conversation_roles" =>
        /\ Cardinality({r \in 1..Len(sorted_df) : AfterSilence(r)})
              = Cardinality({r \in 1..Len(sorted_df) : BeforeSilence(r)})
        /\ Cardinality(SortedNames) <= 10 =>
              /\ SumCounts(result.starters, Len(result.starters))
                    = SumCounts(result.enders, Len(result.enders))
              /\ SumCounts(result.starters, Len(result.starters))
                    = Cardinality({r \in 1..Len(sorted_df) : AfterSilence(r)})

\* Two silences among three messages: two starters, two enders, of different
\* names.
C28_Witness ==
    /\ metric = "conversation_roles"
    /\ Len(sorted_df) = 3
    /\ sorted_df[1].DateTime = 0 /\ sorted_df[2].DateTime = 181 /\ sorted_df[3].DateTime = 362
    /\ SumCounts(result.starters, Len(result.starters)) = 2
    /\ SumCounts(result.enders, Len(result.enders)) = 2
    /\ Len(result.enders) = 1 /\ Len(result.starters) = 2

----------------------------------------------------------------------------
(* calculate_achievements on its own, with more authors than its top list *)

RECURSIVE Blocks(_)
\* k + 1 messages of ManyAuthors[k] for k = 1..10, each tagged with its block.
Blocks(k) ==
    IF k >= Len(ManyAuthors) THEN <<>>
    ELSE Rep([name |-> ManyAuthors[k], block |-> k], k + 1) \o Blocks(k + 1)

\* A store of eleven authors: ten write a block of messages a minute apart, the
\* blocks more than 12 hours apart, author k one message more than author
\* k - 1; the eleventh answers the last block after 5 minutes with a single message.
LateReply ==
    [r \in 1..(Len(Blocks(1)) + 1) |->
        IF r <= Len(Blocks(1))
        THEN MakeRow(r - 1, Blocks(1)[r].name, 1000 * Blocks(1)[r].block + r, "ok")
        ELSE MakeRow(r - 1, ManyAuthors[Len(ManyAuthors)],
                     1000 * (Len(ManyAuthors) - 1) + Len(Blocks(1)) + 5, "ok")]

AchievementsInit ==
    /\ ParserIdle /\ DetectIdle /\ ServerIdle /\ StatsIdle
    /\ store \in UNION {RichStores(n) : n \in 0..MaxRows} \cup {LateReply}
    /\ sorted_df = <<>> /\ metric = "" /\ arg = 0 /\ user_name = ""
    /\ result = <<>>

AchievementsNext ==
    \/ CalculateAchievements
    \/ Return

AchievementsSpec == AchievementsInit /\ [][AchievementsNext]_vars

\* The names that hold a badge in the result.
Winners(badge) ==
    {k \in DOMAIN result.achievements :
        \E b \in DOMAIN result.achievements[k].badges :
            result.achievements[k].badges[b] = badge}

\* The 10 names with the most messages are the names of the store, or there is a
\* qualifying reply of a name that has more messages than some other 10 names.
NoReplyOfTheTop ==
    \A r \in 2..Len(sorted_df) :
        (/\ sorted_df[r].Author # sorted_df[r - 1].Author
         /\ sorted_df[r].DateTime - sorted_df[r - 1].DateTime > 0
         /\ sorted_df[r].DateTime - sorted_df[r - 1].DateTime < 720)
        => Cardinality({n \in StoreNames :
                           MessagesOf(n) > MessagesOf(sorted_df[r].CleanAuthor)}) >= 10

\* C22: on a store with messages calculate_achievements does not raise; there
\* is no Night Owl without a message in the hours 0-5, no Early Bird without
\* one in the hours 5-7, no Lightning without a qualifying reply of the 10 names
\* with the most messages; and no badge has two winners.
C22_MissingBadgesAreAbsent ==
    metric = "achievements" /\ store # <<>> =>
        /\ ~IsRaised(result)
        /\ (\A r \in 1..Len(store) : store[r].Hour > 5) => Winners("Night Owl") = {}
        /\ (\A r \in 1..Len(store) : store[r].Hour < 5 \/ store[r].Hour > 7)
              => Winners("Early Bird") = {}
        /\ NoReplyOfTheTop => Winners("Lightning") = {}
        /\ \A badge \in {"Night Owl", "Early Bird", "Comedian", "Lightning",
                         "Chatterbox", "Professor"} : Cardinality(Winners(badge)) <= 1

----------------------------------------------------------------------------
(* get_summary: the span of the chat *)

\* The minutes between the earliest and the latest message of the store.
SpanMinutes ==
    CHOOSE d \in {store[j].DateTime - store[i].DateTime : i, j \in 1..Len(store)} :
        \A i, j \in 1..Len(store) : d >= store[j].DateTime - store[i].DateTime

\* C23: on a store with messages get_summary reports total_days >= 1: the whole
\* days between the earliest and the latest message, or 1 when there is no
\* whole day between them; messages_per_day is total_messages / total_days
\* (in tenths, rounded to the nearest tenth).
C23_TotalDaysAtLeastOne ==
    metric = "summary" /\ store # <<>> =>
        /\ ~IsRaised(result)
        /\ result.total_days >= 1
        /\ \/ SpanMinutes < MINUTES_PER_DAY /\ result.total_days = 1
           \/ /\ result.total_days * MINUTES_PER_DAY <= SpanMinutes
              /\ SpanMinutes < (result.total_days + 1) * MINUTES_PER_DAY
        /\ result.total_messages = Len(store)
        /\ 2 * (10 * result.total_messages - result.messages_per_day * result.total_days)
              <= result.total_days
        /\ 2 * (result.messages_per_day * result.total_days - 10 * result.total_messages)
              <= result.total_days

\* A chat of several messages within a day is reported with total_days = 1.
C23_Witness ==
    /\ metric = "summary" /\ ~IsRaised(result)
    /\ Len(store) = MaxRows
    /\ SpanMinutes > 0 /\ SpanMinutes < MINUTES_PER_DAY
    /\ result.total_days = 1
    /\ result.messages_per_day = 10 * MaxRows

\* A chat of several days is reported with that many days.
SeveralDaysReported ==
    /\ metric = "summary" /\ ~IsRaised(result)
    /\ SpanMinutes > 2 * MINUTES_PER_DAY
    /\ result.total_days > 2
    /\ result.messages_per_day < 10

----------------------------------------------------------------------------
(* analyze_links: the top sharer and the total *)

\* C24: analyze_links returns no top sharer and the "no links shared" insight
\* when total_links is 0, and names a top sharer with a positive number of links
\* when total_links is greater than 0.
C24_TopSharerIffLinks ==
    metric = "links" =>
        /\ ~IsRaised(result)
        /\ result.total_links = 0 => result.top_sharer = None /\ result.insight = None
        /\ result.total_links > 0 =>
              /\ result.top_sharer # None
              /\ result.insight # None
              /\ \E k \in DOMAIN result.data :
                    /\ result.data[k].name = result.top_sharer[1]
                    /\ result.data[k].links > 0

----------------------------------------------------------------------------
(* Looking an author up by the name a metric reported *)

\* Messages of authors with short and long names.
LongPool ==
    {<<"A", 0, "good">>, <<"Bartholomew Higgins", 5, "bad">>,
     <<"B.", 6, "ok">>, <<"Dr. Who", 1740, "hi">>}

RECURSIVE LongStores(_)
\* The stores of n messages of LongPool, in transcript order.
LongStores(n) ==
    IF n = 0 THEN {<<>>}
    ELSE {Append(st, MakeRow(n - 1, m[1], m[2], m[3])) :
             st \in LongStores(n - 1), m \in LongPool}

LookupInit ==
    /\ ParserIdle /\ DetectIdle /\ ServerIdle /\ StatsIdle
    /\ store \in UNION {LongStores(n) : n \in 0..MaxRows}
    /\ sorted_df = <<>> /\ metric = "" /\ arg = 0 /\ user_name = ""
    /\ result = <<>>

\* GET /compare with a user_name taken from the response of GET /volume:
\* comparison = analyzer.compare_user_to_group(user_name)
compare_user ==
    /\ metric = "volume"
    /\ \E k \in DOMAIN result.data : \E sd \in SortValues(store) :
        /\ result' = CompareOutcome(store, sd, clean_name(result.data[k].name))
        /\ metric' = "compare"
        /\ arg' = 0
        /\ user_name' = result.data[k].name
        /\ sorted_df' = IF Found(store, clean_name(result.data[k].name)) THEN sd ELSE <<>>
        /\ UNCHANGED <<store, parserVars, detectVars, serverVars, statsVars>>

LookupNext ==
    \/ AnalyzeVolume
    \/ compare_user
    \/ Return

LookupSpec == LookupInit /\ [][LookupNext]_vars

\* C29: a name that a metric reports is its own normalization, and
\* compare_user_to_group called with it finds the author.
C29_ReportedNameIsFound ==
    metric = "compare" /\ user_name \in StoreNames =>
        /\ clean_name(user_name) = user_name
        /\ result # None

----------------------------------------------------------------------------
(* The upload route and the session map (src/api/routes/upload.py) *)

MAX_SESSIONS == 100
MaxUploads == 102
MaxInFlight == 2

\* s.endswith(suffix)
EndsWith(s, suffix) ==
    Len(s) >= Len(suffix) /\ SubSeq(s, Len(s) - Len(suffix) + 1, Len(s)) = suffix

\* The file names of the requests: none, one that is refused, an archive (a
\* .txt file is served as an archive that holds one transcript is).
FileNames == {"", "chat.pdf", "chat.zip"}

\* file.filename and (file.filename.endswith('.txt') or file.filename.endswith('.zip'))
Accepted(filename) ==
    filename # "" /\ (EndsWith(filename, ".txt") \/ EndsWith(filename, ".zip"))

\* What "await file.read()" delivers: whether the archive opens and the text
\* decodes, the number of .txt members of an archive, and len(df) of the frame
\* parse_chat_content returns for the text: a file that cannot be read, an
\* archive without a transcript, a transcript without messages, one with two.
Bodies ==
    {[readable |-> FALSE, txt_files |-> 0, messages |-> 0],
     [readable |-> TRUE, txt_files |-> 0, messages |-> 2],
     [readable |-> TRUE, txt_files |-> 1, messages |-> 0],
     [readable |-> TRUE, txt_files |-> 1, messages |-> 2]}

\* The way upload_chat_file leaves its try block for a file name and a body.
Outcome(filename, body) ==
    IF ~body.readable THEN "error"
    ELSE IF EndsWith(filename, ".zip") /\ body.txt_files = 0 THEN "no_txt"
    ELSE IF body.messages = 0 THEN "empty"
    ELSE "created"

\* A clean-up that tolerates one session more: the variant C26 tells from CleanUp.
CleanUpLate(s) == IF Len(s) > MAX_SESSIONS + 1 THEN Tail(s) ELSE s

\* if len(sessions) > 100: oldest_key = next(iter(sessions)); del sessions[oldest_key]
CleanUp(s) == IF Len(s) > MAX_SESSIONS THEN Tail(s) ELSE s

\* A handler that stores the session before it looks at the frame: the variant
\* C25 tells from SessionsAfter.
SessionsAfterStoring(outcome, s, session_id) ==
    IF outcome \in {"empty", "created"} THEN CleanUp(Append(s, session_id)) ELSE s

\* sessions after the try block: sessions[session_id] = analyzer and the
\* clean-up are reached only with a frame that has rows.
SessionsAfter(outcome, s, session_id) ==
    IF outcome = "created" THEN CleanUp(Append(s, session_id)) ELSE s

\* The response of upload_chat_file for an outcome.
UploadResponse(outcome, session_id) ==
    IF outcome = "created"
    THEN [route |-> "upload", status |-> 200, session_id |-> session_id,
          detail |-> "File uploaded and parsed successfully"]
    ELSE IF outcome = "empty"
    THEN [route |-> "upload", status |-> 400, session_id |-> 0,
          detail |-> "Could not parse any messages. Check the file format."]
    ELSE IF outcome = "no_txt"
    THEN [route |-> "upload", status |-> 400, session_id |-> 0,
          detail |-> "No .txt file found in ZIP"]
    ELSE [route |-> "upload", status |-> 500, session_id |-> 0,
          detail |-> "Error processing file"]

\* The sequence without the id, and the id at its end.
MoveToEnd(seq, id) == SelectSeq(seq, LAMBDA x : x # id) \o <<id>>

\* s holds the key.
Holds(s, key) == \E k \in DOMAIN s : s[k] = key

UploadInit ==
    /\ ParserIdle /\ DetectIdle /\ AnalyzerIdle /\ ServerIdle /\ StatsIdle

\* upload_chat_file, lines 35-42: a request without an acceptable file name
RejectFile ==
    /\ \E filename \in FileNames :
        /\ ~Accepted(filename)
        /\ response' = [route |-> "upload", status |-> 400, session_id |-> 0,
                        detail |-> IF filename = "" THEN "No file provided"
                                   ELSE "Invalid file type"]
    /\ UNCHANGED <<sessions, issued, in_flight, recency, evicted>>
    /\ UNCHANGED <<parserVars, detectVars, analyzerVars, statsVars>>

\* upload_chat_file, lines 35-45: up to "await file.read()", where the
\* handler is suspended and other requests are served
ReadFile ==
    /\ BagCardinality(in_flight) < MaxInFlight
    /\ \E filename \in FileNames :
        /\ Accepted(filename)
        /\ in_flight' = in_flight (+) SetToBag({filename})
    /\ UNCHANGED <<sessions, issued, response, recency, evicted>>
    /\ UNCHANGED <<parserVars, detectVars, analyzerVars, statsVars>>

\* upload_chat_file, lines 45-96: from the read to the response, without a
\* suspension point
upload_chat_file ==
    /\ issued < MaxUploads
    /\ \E filename \in BagToSet(in_flight) : \E body \in Bodies :
        /\ in_flight' = in_flight (-) SetToBag({filename})
        /\ sessions' = SessionsAfter(Outcome(filename, body), sessions, issued + 1)
        /\ issued' = IF Outcome(filename, body) = "created" THEN issued + 1 ELSE issued
        /\ recency' = IF Outcome(filename, body) = "created"
                      THEN Append(recency, issued + 1) ELSE recency
        /\ evicted' = IF Outcome(filename, body) = "created"
                      THEN (IF Len(sessions) + 1 > MAX_SESSIONS THEN Head(sessions) ELSE 0)
                      ELSE evicted
        /\ response' = UploadResponse(Outcome(filename, body), issued + 1)
    /\ UNCHANGED <<parserVars, detectVars, analyzerVars, statsVars>>

\* The session ids a client asks for: one never issued, the oldest key of the
\* map, the newest id issued, the id deleted last.
LookupIds == {0, issued, evicted} \cup (IF sessions = <<>> THEN {} ELSE {Head(sessions)})

\* get_analyzer(session_id), as every analysis route calls it first
get_analyzer ==
    /\ \E session_id \in LookupIds :
        /\ response' = IF Holds(sessions, session_id)
                       THEN [route |-> "get_analyzer", status |-> 200,
                             session_id |-> session_id, detail |-> ""]
                       ELSE [route |-> "get_analyzer", status |-> 404,
                             session_id |-> session_id, detail |-> "Session not found"]
        /\ recency' = IF Holds(sessions, session_id)
                      THEN MoveToEnd(recency, session_id) ELSE recency
    /\ UNCHANGED <<sessions, issued, in_flight, evicted>>
    /\ UNCHANGED <<parserVars, detectVars, analyzerVars, statsVars>>

UploadNext ==
    \/ RejectFile
    \/ ReadFile
    \/ upload_chat_file
    \/ get_analyzer

UploadSpec == UploadInit /\ [][UploadNext]_vars

----------------------------------------------------------------------------
(* Properties of the session map *)

NO_MESSAGES == "Could not parse any messages. Check the file format."

\* C25: an upload that ends with the "could not parse any messages" response is
\* answered with status 400 and leaves the session map as it was: no session id
\* is issued, no key is added and none is deleted.
C25_EmptyUploadChangesNothing ==
    [][(/\ BagCardinality(in_flight') < BagCardinality(in_flight)
        /\ response'.detail = NO_MESSAGES)
       => /\ response'.route = "upload" /\ response'.status = 400
          /\ sessions' = sessions /\ issued' = issued /\ evicted' = evicted]_vars

\* The upload of a transcript without messages has been refused while the map
\* was full and nothing had been deleted from it yet.
C25_Witness ==
    /\ response.route = "upload" /\ response.status = 400
    /\ response.detail = NO_MESSAGES
    /\ Len(sessions) = MAX_SESSIONS /\ issued = MAX_SESSIONS /\ evicted = 0

\* C26: between the steps of the upload handlers, in any interleaving, the map
\* holds at most 100 sessions and holds the session id issued last; that id
\* is in the map when its upload returns, and get_analyzer finds it.
C26_AtMostHundredWithNewest ==
    /\ Len(sessions) <= MAX_SESSIONS
    /\ issued > 0 => Holds(sessions, issued)
    /\ response.route = "upload" /\ response.status = 200
          => response.session_id = issued /\ Holds(sessions, response.session_id)
    /\ response.route = "get_analyzer" /\ response.session_id = issued /\ issued > 0
          => response.status = 200

\* get_analyzer has found the newest session in a full map that an upload
\* deleted a key from, with another upload in flight.
C26_Witness ==
    /\ response.route = "get_analyzer" /\ response.status = 200
    /\ response.session_id = issued
    /\ Len(sessions) = MAX_SESSIONS /\ evicted # 0
    /\ in_flight # EmptyBag

\* The position of the id in the sequence.
Pos(seq, id) == CHOOSE k \in DOMAIN seq : seq[k] = id

\* C27: the key an upload deletes is the least recently used one: every
\* session that is retained was used (created or looked up through
\* get_analyzer) after the deleted one was used last.
C27_EvictsLeastRecentlyUsed ==
    evicted # 0 =>
        \A k \in DOMAIN sessions : Pos(recency, evicted) < Pos(recency, sessions[k])

----------------------------------------------------------------------------
(* StatsService.increment_count (src/api/stats.py) *)

MaxCalls == 3
MaxCount == 2

\* The calls of increment_count.
Calls == 1..MaxCalls

StatsInit ==
    /\ ParserIdle /\ DetectIdle /\ AnalyzerIdle /\ ServerIdle
    /\ initial_count \in 0..MaxCount
    /\ total_vibes_checked = initial_count
    /\ calls = [c \in Calls |-> [pc |-> "idle", current |-> 0, returned |-> 0]]

\* cls._ensure_data_dir(); current = cls.get_count(): the file exists and
\* get_count returns data.get("total_vibes_checked", 0)
ReadCount ==
    /\ \E c \in Calls :
        /\ calls[c].pc = "idle"
        /\ calls' = [calls EXCEPT ![c] = [pc |-> "read", current |-> total_vibes_checked,
                                          returned |-> 0]]
    /\ UNCHANGED <<initial_count, total_vibes_checked>>
    /\ UNCHANGED <<parserVars, detectVars, analyzerVars, serverVars>>

\* new_count = current + 1; json.dump({"total_vibes_checked": new_count}, f);
\* return new_count
WriteCount ==
    /\ \E c \in Calls :
        /\ calls[c].pc = "read"
        /\ total_vibes_checked' = calls[c].current + 1
        /\ calls' = [calls EXCEPT ![c] = [pc |-> "done", current |-> calls[c].current,
                                          returned |-> calls[c].current + 1]]
    /\ UNCHANGED initial_count
    /\ UNCHANGED <<parserVars, detectVars, analyzerVars, serverVars>>

StatsNext ==
    \/ ReadCount
    \/ WriteCount

StatsSpec == StatsInit /\ [][StatsNext]_vars

\* The calls that have returned.
Completed == {c \in Calls : calls[c].pc = "done"}

\* C30: when every call of increment_count that was started has returned, the
\* stored number is the initial number plus the number of calls, and no two
\* calls have returned the same number.
C30_NoUpdateLost ==
    (\A c \in Calls : calls[c].pc # "read") =>
        /\ total_vibes_checked = initial_count + Cardinality(Completed)
        /\ \A c, d \in Completed : c # d => calls[c].returned # calls[d].returned

=============================================================================
